---- MODULE Spec2Model ----
(***************************************************************************)
(* State-machine model of the EXECUTOR core: the circuit breaker           *)
(* (core/circuit_breaker.py), the Hydra model router with its credential   *)
(* pool (core/model_router.py) and the SQLite task queue                   *)
(* (core/task_queue.py).                                                   *)
(*                                                                         *)
(* Time is an integer number of seconds (variable now).  Python dicts read *)
(* with .get(k, default) are total functions that start at the default.    *)
(***************************************************************************)
EXTENDS Integers, Sequences, FiniteSets, TLC

\* ------------------------------------------------------------------ bounds
MaxTime == 4
MaxThreshold == 2
MaxTimeout == 2
MaxFailures == 4
MaxRouterTime == 61
MaxShort == 1
MaxIndex == 6
MaxKeys == 2
MaxRetriesArg == 2
MaxLongRetries == 7
MaxTasks == 3
MaxQueueTime == 2
MaxChanges == 6
MaxQueueTasks == 2
MaxQueueChanges == 4
MaxStep == 1

\* ------------------------------------------------------- program constants
NoTime == -1

VARIABLES
  now,                \* the wall clock read by datetime.now() / CURRENT_TIMESTAMP
  failure_threshold,  \* CircuitBreaker.failure_threshold
  timeout,            \* CircuitBreaker.timeout
  success_threshold,  \* CircuitBreaker.success_threshold
  failures,           \* CircuitBreaker.failures
  successes,          \* CircuitBreaker.successes
  state,              \* CircuitBreaker.state
  opened_at,          \* CircuitBreaker.opened_at
  cbLast,             \* observation: the last CircuitBreaker.call
  failRun,            \* observation: consecutive invoked-and-failed calls per key
  okRun,              \* observation: consecutive successes in the current HALF_OPEN episode
  keys,               \* ModelRouter.keys, the credential pool
  current_key_index,  \* ModelRouter.current_key_index
  rtLast,             \* observation: the last router operation and its result
  rtLog,              \* observation: what the last router operation did, in order
  rrRun,              \* observation: the current run of selections for one provider
  handed,             \* observation: per provider, the pool position last handed out
  tasks,              \* the rows of table tasks, by id
  seq,                \* sqlite_sequence of tasks: the largest id ever assigned
  total_changes,      \* sqlite3.Connection.total_changes
  tqLast,             \* observation: the last queue operation and the one before
  dispatched,         \* observation: ids returned by get_next_task and then started
  issued,             \* observation: the highest id add_task has returned
  wpc,                \* per worker: position in its dispatch sequence
  wtask,              \* per worker: the id its get_next_task returned
  delivered,          \* observation: per worker, the ids get_next_task returned
  tpc,                \* per thread: the line it has reached inside an operation
  tloc,               \* per thread: the local values of the operation it is in
  committed,          \* the database file: what a new connection reads
  last_state,         \* state/last_state.json: the recorded run-state
  checkpoints,        \* state/<agent>_checkpoint.json, per agent
  report,             \* observation: the report, when the last PowerRecovery call was recover()
  saved,              \* observation: per agent, the arguments of its last save_checkpoint
  prLast,             \* observation: the last PowerRecovery operation
  pc,                 \* the process: down, init (constructed) or main_loop
  current_step,       \* Executor.current_step, loaded at construction
  recovered,          \* observation: recover() was invoked by this run
  prevExit,           \* observation: how the run before this one ended
  acked               \* observation: the table as the killed run last saw it

cbVars == <<failure_threshold, timeout, success_threshold, failures, successes,
            state, opened_at>>
cbObs == <<cbLast, failRun, okRun>>
rtVars == <<keys, current_key_index>>
rtObs == <<rtLast, rtLog, rrRun, handed>>
tqVars == <<tasks, seq, total_changes, committed>>
tqObs == <<tqLast, dispatched, issued>>
wkVars == <<wpc, wtask, delivered, tpc, tloc>>
prVars == <<last_state, checkpoints, prLast, saved, report>>
lcVars == <<pc, current_step, recovered, prevExit, acked>>
vars == <<now, cbVars, cbObs, rtVars, rtObs, tqVars, tqObs, wkVars, prVars,
          lcVars>>

\* ------------------------------------------------------- circuit breaker
CircuitState == {"closed", "open", "half_open"}

\* Service names are free strings: two stand-alone services, and the names
\* the router builds at model_router.py:293.
CallKeys == {"svc_a", "svc_b"}
Providers == {"opencode", "google", "google-ai-pro", "openai-plus"}
ProviderKey(p) == "provider_" \o p
ServiceKeys == CallKeys \cup {ProviderKey(p) : p \in Providers}

\* The four per-service dicts of one CircuitBreaker, as one value.
Breaker ==
  [failures |-> failures, successes |-> successes, state |-> state,
   opened_at |-> opened_at]

\* Variants of the bookkeeping with one slip each, used to show that the
\* properties below depend on it.
on_success_late(cb, k) ==
  IF cb.state[k] = "half_open"
  THEN LET c1 == [cb EXCEPT !.successes[k] = @ + 1]
       IN  IF c1.successes[k] > success_threshold
           THEN [c1 EXCEPT !.state[k] = "closed",
                           !.failures[k] = 0,
                           !.successes[k] = 0]
           ELSE c1
  ELSE [cb EXCEPT !.failures[k] = 0]

on_success_keeps(cb, k) ==
  IF cb.state[k] = "half_open"
  THEN LET c1 == [cb EXCEPT !.successes[k] = @ + 1]
       IN  IF c1.successes[k] >= success_threshold
           THEN [c1 EXCEPT !.state[k] = "closed",
                           !.failures[k] = 0,
                           !.successes[k] = 0]
           ELSE c1
  ELSE cb

on_failure_late(cb, k, t) ==
  LET c1 == [cb EXCEPT !.failures[k] = @ + 1]
  IN  IF c1.failures[k] > failure_threshold
      THEN [c1 EXCEPT !.state[k] = "open",
                      !.opened_at[k] = t,
                      !.successes[k] = 0]
      ELSE c1

on_success(cb, k) ==
  IF cb.state[k] = "half_open"
  THEN LET c1 == [cb EXCEPT !.successes[k] = @ + 1]
       IN  IF c1.successes[k] >= success_threshold
           THEN [c1 EXCEPT !.state[k] = "closed",
                           !.failures[k] = 0,
                           !.successes[k] = 0]
           ELSE c1
  ELSE [cb EXCEPT !.failures[k] = 0]

on_failure(cb, k, t) ==
  LET c1 == [cb EXCEPT !.failures[k] = @ + 1]
  IN  IF c1.failures[k] >= failure_threshold
      THEN [c1 EXCEPT !.state[k] = "open",
                      !.opened_at[k] = t,
                      !.successes[k] = 0]
      ELSE c1

\* Line 62 of call: the time since the circuit opened.
Elapsed(cb, k, t) == t - cb.opened_at[k]

\* A variant of the gate, used to test the properties: a rejected call is
\* counted as a failure.
admit_counting(cb, k, t) ==
  IF cb.state[k] = "open"
  THEN IF Elapsed(cb, k, t) > timeout
       THEN [cb |-> [cb EXCEPT !.state[k] = "half_open"], rejected |-> FALSE]
       ELSE [cb |-> [cb EXCEPT !.failures[k] = @ + 1], rejected |-> TRUE]
  ELSE [cb |-> cb, rejected |-> FALSE]

\* Lines 61-76 of call: the gate in front of the operation.  rejected means
\* CircuitBreakerOpenError was raised before func was invoked.
admit(cb, k, t) ==
  IF cb.state[k] = "open"
  THEN IF Elapsed(cb, k, t) > timeout
       THEN [cb |-> [cb EXCEPT !.state[k] = "half_open"], rejected |-> FALSE]
       ELSE [cb |-> cb, rejected |-> TRUE]
  ELSE [cb |-> cb, rejected |-> FALSE]

\* Lines 78-86 of call: bookkeeping after func returned (ok) or raised.
settle(cb, k, ok, t) ==
  IF ok THEN on_success(cb, k) ELSE on_failure(cb, k, t)

SetBreaker(cb) ==
  /\ failures' = cb.failures
  /\ successes' = cb.successes
  /\ state' = cb.state
  /\ opened_at' = cb.opened_at

\* Observation of one call: state at entry, state behind the gate, outcome.
Observe(k, pre, t0, t1, adm, outcome) ==
  [key |-> k, pre |-> pre.state[k], preFailures |-> pre.failures[k],
   preSuccesses |-> pre.successes[k], preOpenedAt |-> pre.opened_at[k],
   elapsed |-> IF pre.state[k] = "open" THEN Elapsed(pre, k, t0) ELSE 0,
   at |-> t0, done |-> t1,
   gate |-> adm.cb.state[k], invoked |-> ~adm.rejected, outcome |-> outcome]

NoCall ==
  [key |-> "none", pre |-> "closed", preFailures |-> 0, preSuccesses |-> 0,
   preOpenedAt |-> NoTime, elapsed |-> 0, at |-> 0, done |-> 0, gate |-> "closed",
   invoked |-> FALSE, outcome |-> "none"]

CBInit(ft, to, st) ==
  /\ failure_threshold = ft
  /\ timeout = to
  /\ success_threshold = st
  /\ failures = [k \in ServiceKeys |-> 0]
  /\ successes = [k \in ServiceKeys |-> 0]
  /\ state = [k \in ServiceKeys |-> "closed"]
  /\ opened_at = [k \in ServiceKeys |-> NoTime]
  /\ cbLast = NoCall
  /\ failRun = [k \in ServiceKeys |-> 0]
  /\ okRun = [k \in ServiceKeys |-> 0]

\* A variant of call_outcome, used to test the properties: the failure of
\* func is swallowed.
call_outcome_swallowed(adm, ok) == IF adm.rejected THEN "open" ELSE "ok"

\* How call ends for its caller: CircuitBreakerOpenError from the gate
\* ("open"), the value func returned ("ok"), or the exception func raised,
\* raised again by the bare `raise` of line 86 ("fail").
call_outcome(adm, ok) ==
  IF adm.rejected THEN "open" ELSE IF ok THEN "ok" ELSE "fail"

\* CircuitBreaker.call(k, func) where func takes d seconds and then returns
\* (ok) or raises.
Call(k, ok, d) ==
  LET adm == admit(Breaker, k, now)
      t1 == IF adm.rejected THEN now ELSE now + d
      cb1 == IF adm.rejected THEN adm.cb ELSE settle(adm.cb, k, ok, t1)
      outcome == call_outcome(adm, ok)
  IN  /\ t1 <= MaxTime
      /\ (~adm.rejected /\ ~ok) => failures[k] < MaxFailures
      /\ SetBreaker(cb1)
      /\ now' = t1
      /\ cbLast' = Observe(k, Breaker, now, t1, adm, outcome)
      /\ failRun' = [failRun EXCEPT ![k] =
                       IF adm.rejected THEN @ ELSE IF ok THEN 0 ELSE @ + 1]
      /\ okRun' = [okRun EXCEPT ![k] =
                       IF adm.rejected THEN @
                       ELSE IF ~ok THEN 0
                       ELSE IF adm.cb.state[k] # "half_open" THEN 0
                       ELSE IF state[k] = "open" THEN 1 ELSE @ + 1]
      /\ UNCHANGED <<failure_threshold, timeout, success_threshold>>
      /\ UNCHANGED <<rtVars, rtObs, tqVars, tqObs, wkVars, prVars, lcVars>>

\* ------------------------------------------------------------ model router
Tiers == {"free", "standard", "premium", "critical"}

MODELS ==
  ("opencode-claude" :> [tier |-> "free", provider |-> "opencode"]) @@
  ("opencode-openai" :> [tier |-> "free", provider |-> "opencode"]) @@
  ("opencode-google" :> [tier |-> "free", provider |-> "opencode"]) @@
  ("opencode-kimi" :> [tier |-> "free", provider |-> "opencode"]) @@
  ("opencode-glm" :> [tier |-> "free", provider |-> "opencode"]) @@
  ("gemini-flash-lite" :> [tier |-> "free", provider |-> "google"]) @@
  ("gemini-3-pro" :> [tier |-> "standard", provider |-> "google-ai-pro"]) @@
  ("gemini-3-flash" :> [tier |-> "standard", provider |-> "google-ai-pro"]) @@
  ("chatgpt-oss120b" :> [tier |-> "standard", provider |-> "google-ai-pro"]) @@
  ("kimi-2.5" :> [tier |-> "standard", provider |-> "google-ai-pro"]) @@
  ("glm-4.7" :> [tier |-> "standard", provider |-> "google-ai-pro"]) @@
  ("claude-4.5-sonnet" :> [tier |-> "premium", provider |-> "google-ai-pro"]) @@
  ("chatgpt-5.2-plus" :> [tier |-> "premium", provider |-> "openai-plus"]) @@
  ("claude-4.5-opus" :> [tier |-> "critical", provider |-> "google-ai-pro"])

\* ModelRouter.__init__: the breaker parameters and the retry configuration.
RouterFailureThreshold == 5
RouterTimeout == 60
RouterSuccessThreshold == 2
MAX_RETRIES == 3
INITIAL_BACKOFF == 1
MAX_BACKOFF == 30

\* Python values that the code tests for truth or subscripts.
PyNone == [type |-> "NoneType", val |-> "None"]
PyStr(s) == [type |-> "str", val |-> s]
Truthy(v) == v.type # "NoneType" /\ v.val # ""

\* A routing result, or the exception that left the call (exc # "none").
Result(m, p, t, k, approval) ==
  [exc |-> "none", model |-> m, provider |-> p, tier |-> t, api_key |-> k,
   requires_approval |-> approval]
Raise(e) ==
  [exc |-> e, model |-> "absent", provider |-> "absent", tier |-> "absent",
   api_key |-> "absent", requires_approval |-> FALSE]

\* A variant of the answer below, used to test the properties.
ApprovalResult_auto ==
  Result("claude-4.5-opus", "absent", "absent", "absent", FALSE)

\* select_model, lines 141-145: the approval-required answer for "critical".
ApprovalResult ==
  Result("claude-4.5-opus", "absent", "absent", "absent", TRUE)

\* select_with_fallback, lines 228-234: the hardcoded last resort.
DefaultResult == Result("opencode-claude", "opencode", "free", "None", FALSE)

\* One entry of the observation log: an acquisition and how it ended, a
\* selection from the pool (cred = position chosen, use0 = its usage_count
\* before), a sleep (secs = its base delay), or the "Trying fallback" line
\* of the fallback stage (cred = position in the chain).
Event(kind, m, p, cred, exc, secs, use0) ==
  [kind |-> kind, model |-> m, prov |-> p, cred |-> cred, exc |-> exc,
   secs |-> secs, use0 |-> use0]

\* The router's mutable world while one operation runs.
World ==
  [cb |-> Breaker, keys |-> keys, idx |-> current_key_index, t |-> now,
   log |-> <<>>]

\* Line 303: positions in the pool of the credentials of one provider.
provider_keys(pool, prov) ==
  SelectSeq([i \in 1..Len(pool) |-> i], LAMBDA i : pool[i].provider = prov)

\* Variants with one slip each, used to show that the properties depend on
\* the code they name.
select_key_stuck(w, prov) ==
  LET pk == provider_keys(w.keys, prov)
  IN  IF pk = <<>>
      THEN [w |-> [w EXCEPT !.log = Append(@, Event("select", "", prov, 0, "none", 0, 0))],
            key |-> PyNone, cred |-> 0]
      ELSE LET i == pk[(w.idx % Len(pk)) + 1]
           IN  [w |-> [w EXCEPT !.keys[i].usage_count = @ + 1,
                                !.keys[i].last_used = w.t,
                                !.log = Append(@, Event("select", "", prov, i, "none", 0,
                                                       w.keys[i].usage_count))],
                key |-> PyStr(w.keys[i].key), cred |-> i]

Caught_only_open(exc) == exc = "CircuitOpen"

\* _select_key_for_provider: returns the secret string (line 317), or None.
select_key_for_provider(w, prov) ==
  LET pk == provider_keys(w.keys, prov)
  IN  IF pk = <<>>
      THEN [w |-> [w EXCEPT !.log = Append(@, Event("select", "", prov, 0, "none", 0, 0))],
            key |-> PyNone, cred |-> 0]
      ELSE LET i == pk[(w.idx % Len(pk)) + 1]
           IN  [w |-> [w EXCEPT !.idx = @ + 1,
                                !.keys[i].usage_count = @ + 1,
                                !.keys[i].last_used = w.t,
                                !.log = Append(@, Event("select", "", prov, i, "none", 0,
                                                       w.keys[i].usage_count))],
                key |-> PyStr(w.keys[i].key), cred |-> i]

\* A variant of the subscript below, used to test the properties: the
\* secret is taken from a str as well.
GetItem_any(v) == [exc |-> "none", val |-> v.val]

\* key_entry["key"] at lines 275 and 285: subscripting by a string is defined
\* on a dict and raises TypeError on a str.
GetItem(v) ==
  IF v.type = "dict" THEN [exc |-> "none", val |-> v.val]
  ELSE [exc |-> "TypeError", val |-> "absent"]

RECURSIVE get_model_with_key(_, _)

\* Lines 275-288: the result built from the selected key_entry.
key_result(w, got, model_name, prov, t) ==
  IF got.exc # "none"
  THEN [w |-> w, res |-> Raise(got.exc)]
  ELSE [w |-> w, res |-> Result(model_name, prov, t, got.val, FALSE)]

\* A variant of use_key, used to test the properties: no key is an error.
use_key_strict(sel, model_name, prov, t) ==
  IF ~Truthy(sel.key)
  THEN [w |-> sel.w, res |-> Raise("ValueError")]
  ELSE key_result(sel.w, GetItem(sel.key), model_name, prov, t)

\* Lines 270-288: no key falls back to opencode-claude, a key is used.
use_key(sel, model_name, prov, t) ==
  IF ~Truthy(sel.key)
  THEN get_model_with_key(sel.w, "opencode-claude")
  ELSE key_result(sel.w, GetItem(sel.key), model_name, prov, t)

\* A variant of get_key_logic, used to test the properties: the key is
\* selected before the tier is looked at.
get_key_logic_eager(w, model_name, prov, t) ==
  IF t = "free"
  THEN [w |-> select_key_for_provider(w, prov).w,
        res |-> Result(model_name, prov, t, "None", FALSE)]
  ELSE use_key(select_key_for_provider(w, prov), model_name, prov, t)

\* A variant of get_key_logic, used to test the properties: a FREE model
\* whose provider has no credential is an error.
get_key_logic_strict_free(w, model_name, prov, t) ==
  IF t = "free"
  THEN IF provider_keys(w.keys, prov) = <<>>
       THEN [w |-> w, res |-> Raise("ValueError")]
       ELSE [w |-> w, res |-> Result(model_name, prov, t, "None", FALSE)]
  ELSE use_key(select_key_for_provider(w, prov), model_name, prov, t)

\* _get_model_with_key._get_key_logic(prov, t), the operation run behind the
\* breaker's gate.
get_key_logic(w, model_name, prov, t) ==
  IF t = "free"
  THEN [w |-> w, res |-> Result(model_name, prov, t, "None", FALSE)]
  ELSE use_key(select_key_for_provider(w, prov), model_name, prov, t)

\* circuit_breaker.call after _get_key_logic returned or raised r.
settled(r, model_name, prov) ==
  [w |-> [r.w EXCEPT
            !.cb = settle(r.w.cb, ProviderKey(prov), r.res.exc = "none", r.w.t),
            !.log = Append(@, Event("acquire", model_name, prov, 0, r.res.exc, 0, 0))],
   res |-> r.res]

\* circuit_breaker.call with the gate's verdict adm.
guarded(w, adm, model_name, prov) ==
  IF adm.rejected
  THEN [w |-> [w EXCEPT !.log = Append(@, Event("acquire", model_name, prov, 0, "CircuitOpen", 0, 0))],
        res |-> Raise("CircuitOpen")]
  ELSE settled(get_key_logic([w EXCEPT !.cb = adm.cb], model_name, prov,
                             MODELS[model_name].tier),
               model_name, prov)

\* A variant of get_model_with_key, used to test the properties: the
\* failed lookup is counted by the breaker of the default provider.
get_model_with_key_counted(w, model_name) ==
  IF model_name \notin DOMAIN MODELS
  THEN [w |-> [w EXCEPT !.cb = on_failure(w.cb, ProviderKey("opencode"), w.t),
                        !.log = Append(@, Event("acquire", model_name, "", 0, "ValueError", 0, 0))],
        res |-> Raise("ValueError")]
  ELSE guarded(w, admit(w.cb, ProviderKey(MODELS[model_name].provider), w.t),
               model_name, MODELS[model_name].provider)

\* _get_model_with_key: registry lookup, then circuit_breaker.call around
\* _get_key_logic.
get_model_with_key(w, model_name) ==
  IF model_name \notin DOMAIN MODELS
  THEN [w |-> [w EXCEPT !.log = Append(@, Event("acquire", model_name, "", 0, "ValueError", 0, 0))],
        res |-> Raise("ValueError")]
  ELSE guarded(w, admit(w.cb, ProviderKey(MODELS[model_name].provider), w.t),
               model_name, MODELS[model_name].provider)

\* `except Exception` at lines 201 and 222: every exception the acquisition
\* can raise is an Exception.
Caught(exc) == exc \in {"ValueError", "TypeError", "CircuitOpen"}

\* Line 191: `max_retries or self.MAX_RETRIES`; NoArg is an omitted argument.
NoArg == -1
EffectiveRetries(max_retries) ==
  IF max_retries = NoArg \/ max_retries = 0 THEN MAX_RETRIES ELSE max_retries

Min(a, b) == IF a < b THEN a ELSE b

\* Lines 195-212: the retry loop from `attempt` on.  jitter[n] is the whole
\* seconds the n-th sleep takes beyond its base delay.  found = FALSE when
\* the loop ends without a result; a result with exc # "none" left the loop
\* uncaught.
RECURSIVE retry_loop(_, _, _, _, _, _)

\* Lines 209-212: the sleep between two attempts.
slept(w, preferred, backoff, secs) ==
  [w EXCEPT !.t = @ + secs,
            !.log = Append(@, Event("sleep", preferred, "", 0, "none", backoff, 0))]

\* A variant of retry_after, used to test the properties: an open circuit
\* is retried like any other failure.
retry_after_keeps_on(r, preferred, attempt, max_retries, backoff, jitter) ==
  IF r.res.exc = "none" \/ ~Caught(r.res.exc)
  THEN [w |-> r.w, found |-> TRUE, res |-> r.res]
  ELSE IF attempt < max_retries - 1
  THEN retry_loop(slept(r.w, preferred, backoff, backoff + jitter[attempt + 1]),
                  preferred, attempt + 1, max_retries,
                  Min(backoff * 2, MAX_BACKOFF), jitter)
  ELSE retry_loop(r.w, preferred, attempt + 1, max_retries, backoff, jitter)

\* A variant of retry_after, used to test the properties: the delay grows
\* by one second instead of doubling.
retry_after_linear(r, preferred, attempt, max_retries, backoff, jitter) ==
  IF r.res.exc = "none" \/ ~Caught(r.res.exc)
  THEN [w |-> r.w, found |-> TRUE, res |-> r.res]
  ELSE IF r.res.exc = "CircuitOpen"
  THEN [w |-> r.w, found |-> FALSE, res |-> Raise("none")]
  ELSE IF attempt < max_retries - 1
  THEN retry_loop(slept(r.w, preferred, backoff, backoff + jitter[attempt + 1]),
                  preferred, attempt + 1, max_retries,
                  Min(backoff + 1, MAX_BACKOFF), jitter)
  ELSE retry_loop(r.w, preferred, attempt + 1, max_retries, backoff, jitter)

\* Lines 198-212: the attempt returned or raised r.
retry_after(r, preferred, attempt, max_retries, backoff, jitter) ==
  IF r.res.exc = "none" \/ ~Caught(r.res.exc)
  THEN [w |-> r.w, found |-> TRUE, res |-> r.res]
  ELSE IF r.res.exc = "CircuitOpen"
  THEN [w |-> r.w, found |-> FALSE, res |-> Raise("none")]
  ELSE IF attempt < max_retries - 1
  THEN retry_loop(slept(r.w, preferred, backoff, backoff + jitter[attempt + 1]),
                  preferred, attempt + 1, max_retries,
                  Min(backoff * 2, MAX_BACKOFF), jitter)
  ELSE retry_loop(r.w, preferred, attempt + 1, max_retries, backoff, jitter)

retry_loop(w, preferred, attempt, max_retries, backoff, jitter) ==
  IF attempt >= max_retries
  THEN [w |-> w, found |-> FALSE, res |-> Raise("none")]
  ELSE retry_after(get_model_with_key(w, preferred), preferred, attempt,
                   max_retries, backoff, jitter)

\* Lines 217-224: the fallback chain from position i on.
RECURSIVE fallback_loop(_, _, _)

\* A variant of fallback_after, used to test the properties: a success does
\* not end the chain, the last success wins.
later_or(b, r) == IF b.found THEN b ELSE [w |-> b.w, found |-> TRUE, res |-> r.res]
fallback_after_greedy(r, chain, i) ==
  IF r.res.exc = "none" \/ ~Caught(r.res.exc)
  THEN later_or(fallback_loop(r.w, chain, i + 1), r)
  ELSE fallback_loop(r.w, chain, i + 1)

\* Lines 221-224: the attempt on chain[i] returned or raised r.
fallback_after(r, chain, i) ==
  IF r.res.exc = "none" \/ ~Caught(r.res.exc)
  THEN [w |-> r.w, found |-> TRUE, res |-> r.res]
  ELSE fallback_loop(r.w, chain, i + 1)

\* Line 220: logger.info("Trying fallback: ...") before the attempt.
trying(w, chain, i) ==
  [w EXCEPT !.log = Append(@, Event("fallback", chain[i], "", i, "none", 0, 0))]

fallback_loop(w, chain, i) ==
  IF i > Len(chain)
  THEN [w |-> w, found |-> FALSE, res |-> Raise("none")]
  ELSE fallback_after(get_model_with_key(trying(w, chain, i), chain[i]),
                      chain, i)

\* Lines 226-234: the hardcoded default when the chain gave nothing.
or_default(b) ==
  IF b.found THEN [w |-> b.w, res |-> b.res]
  ELSE [w |-> b.w, res |-> DefaultResult]

\* Lines 214-234: after the retries, the chain and then the default.
or_fallback(a, chain) ==
  IF a.found THEN [w |-> a.w, res |-> a.res]
  ELSE or_default(fallback_loop(a.w, chain, 1))

\* select_with_fallback(preferred_model, fallback_chain, max_retries).
select_with_fallback(w, preferred, chain, max_retries, jitter) ==
  or_fallback(retry_loop(w, preferred, 0, EffectiveRetries(max_retries),
                         INITIAL_BACKOFF, jitter),
              chain)

\* A variant of target_tier, used to test the properties: a budget of
\* exactly 20 counts as low.
target_tier_inclusive(task_complexity, budget_remaining_percent) ==
  IF budget_remaining_percent <= 20 THEN "free"
  ELSE IF task_complexity = "complex" THEN "premium"
  ELSE IF task_complexity = "simple" THEN "free"
  ELSE "standard"

\* select_model, lines 147-157: the tier a request is routed to.
target_tier(task_complexity, budget_remaining_percent) ==
  IF budget_remaining_percent < 20 THEN "free"
  ELSE IF task_complexity = "complex" THEN "premium"
  ELSE IF task_complexity = "simple" THEN "free"
  ELSE "standard"

\* select_model, lines 160-167: the candidates random.choice draws from.
suitable_models(tier) ==
  LET s == {m \in DOMAIN MODELS : MODELS[m].tier = tier}
  IN  IF s = {} THEN {"opencode-claude", "opencode-google"} ELSE s

\* Fold the selections of one operation into the run of consecutive
\* selections for one provider.
NoRun == [prov |-> "", start |-> 0, creds |-> <<>>]

RECURSIVE FoldRun(_, _, _, _)
FoldRun(run, log, i, idx0) ==
  IF i > Len(log) THEN run
  ELSE LET e == log[i]
       IN  IF e.kind # "select" THEN FoldRun(run, log, i + 1, idx0)
           ELSE IF e.cred = 0 THEN FoldRun(NoRun, log, i + 1, idx0)
           ELSE IF e.prov = run.prov
           THEN FoldRun([run EXCEPT !.creds = Append(@, e.cred)], log, i + 1,
                        idx0 + 1)
           ELSE FoldRun([prov |-> e.prov, start |-> idx0, creds |-> <<e.cred>>],
                        log, i + 1, idx0 + 1)

\* The pool position each provider was last handed, after the selections
\* of a log.
RECURSIVE FoldHanded(_, _, _)
FoldHanded(h, log, i) ==
  IF i > Len(log) THEN h
  ELSE IF log[i].kind = "select" /\ log[i].cred # 0
  THEN FoldHanded([h EXCEPT ![log[i].prov] = log[i].cred], log, i + 1)
  ELSE FoldHanded(h, log, i + 1)

\* Write the world an operation leaves behind.
Commit(w) ==
  /\ SetBreaker(w.cb)
  /\ keys' = w.keys
  /\ current_key_index' = w.idx
  /\ now' = w.t
  /\ rtLog' = w.log
  /\ rrRun' = FoldRun(rrRun, w.log, 1, current_key_index)
  /\ handed' = FoldHanded(handed, w.log, 1)
  /\ UNCHANGED <<failure_threshold, timeout, success_threshold, cbObs>>
  /\ UNCHANGED <<tqVars, tqObs, wkVars, prVars, lcVars>>

\* Observation of one router operation: its arguments, its result, and what
\* it changed (w is the world it leaves behind).
Seen(op, m, chain, retries, res, w) ==
  [op |-> op, model |-> m, chain |-> chain, retries |-> retries, res |-> res,
   preIdx |-> current_key_index,
   preGate |-> IF m \in DOMAIN MODELS
               THEN state[ProviderKey(MODELS[m].provider)] ELSE "closed",
   poolChanged |-> w.keys # keys, breakerChanged |-> w.cb # Breaker]

RouterInit ==
  /\ keys = <<>>
  /\ current_key_index = 0
  /\ rtLast = [op |-> "none", model |-> "", chain |-> <<>>, retries |-> NoArg,
               res |-> Raise("none"), preIdx |-> 0, preGate |-> "closed",
               poolChanged |-> FALSE,
               breakerChanged |-> FALSE]
  /\ rtLog = <<>>
  /\ rrRun = NoRun
  /\ handed = [p \in Providers |-> 0]

\* Inputs.
KeyProviders == {"google-ai-pro", "openai-plus"}
Secrets == {"k1", "k2"}
FreshSecret == [n \in 0..3 |-> IF n = 0 THEN "k1" ELSE IF n = 1 THEN "k2"
                               ELSE IF n = 2 THEN "k3" ELSE "k4"]
RequestModels ==
  {"opencode-claude", "gemini-3-pro", "chatgpt-5.2-plus", "claude-4.5-opus",
   "no-such-model"}
PreferredModels == {"gemini-3-pro", "chatgpt-5.2-plus", "no-such-model"}
Chains ==
  {<<>>, <<"chatgpt-5.2-plus", "opencode-claude">>,
   <<"no-such-model", "gemini-3-pro">>}
ForcedModels == {"", "gemini-3-pro", "claude-4.5-opus"}
RetryArgs == {NoArg} \cup (0..MaxRetriesArg)
\* random.uniform(0, 1) at line 210, in whole seconds: one draw per sleep.
MaxAttempts ==
  LET m == IF MaxRetriesArg > MAX_RETRIES THEN MaxRetriesArg ELSE MAX_RETRIES
  IN  IF MaxLongRetries > m THEN MaxLongRetries ELSE m
NoJitter == [n \in 1..MaxAttempts |-> 0]
Jitters(n) == [1..n -> 0..1]
Complexities == {"simple", "standard", "complex", "critical", "unknown"}
Budgets == {10, 20, 100}

\* Operations are explored from the instants at most MaxShort seconds after
\* a whole number of breaker timeouts, up to MaxRouterTime; an operation that
\* sleeps may end at any later instant.
InTime(t) == t <= MaxRouterTime /\ (t % RouterTimeout) <= MaxShort
InBounds(w) == InTime(now) /\ w.idx <= MaxIndex

\* add_key(provider, key): append a credential.
AddKey(p, secret) ==
  /\ Len(keys) < MaxKeys
  /\ keys' = Append(keys, [provider |-> p, key |-> secret, usage_count |-> 0,
                           last_used |-> NoTime, rate_limited_until |-> NoTime])
  /\ rtLast' = Seen("add_key", p, <<>>, NoArg, Raise("none"),
                    [World EXCEPT !.keys = keys'])
  /\ rtLog' = <<>>
  /\ rrRun' = NoRun
  /\ handed' = [handed EXCEPT ![p] = 0]
  /\ UNCHANGED <<now, cbVars, cbObs, current_key_index>>
  /\ UNCHANGED <<tqVars, tqObs, wkVars, prVars, lcVars>>

\* An operation that leaves world r.w and returns or raises r.res.
Finish(op, m, chain, retries, r) ==
  /\ InBounds(r.w)
  /\ Commit(r.w)
  /\ rtLast' = Seen(op, m, chain, retries, r.res, r.w)

Selected(p, r) ==
  [w |-> r.w, res |-> Result("absent", p, "absent", r.key.val, FALSE)]

SelectKeyForProvider(p) ==
  Finish("select_key_for_provider", p, <<>>, NoArg,
         Selected(p, select_key_for_provider(World, p)))

GetModelWithKey(m) ==
  Finish("get_model_with_key", m, <<>>, NoArg, get_model_with_key(World, m))

Sleeps(log) == Len(SelectSeq(log, LAMBDA e : e.kind = "sleep"))

SelectWithFallback(m, chain, retries) ==
  \E jitter \in Jitters(Sleeps(
                 select_with_fallback(World, m, chain, retries, NoJitter).w.log)) :
    Finish("select_with_fallback", m, chain, retries,
           select_with_fallback(World, m, chain, retries, jitter))

\* select_model(task_complexity, budget_remaining_percent, force_model);
\* force = "" is an omitted force_model.
SelectModel(complexity, budget, force) ==
  IF force # ""
  THEN Finish("select_model", force, <<>>, budget,
              get_model_with_key(World, force))
  ELSE IF complexity = "critical"
  THEN Finish("select_model", complexity, <<>>, budget,
              [w |-> World, res |-> ApprovalResult])
  ELSE \E m \in suitable_models(target_tier(complexity, budget)) :
         Finish("select_model", complexity, <<>>, budget,
                get_model_with_key(World, m))

\* A variant of MarkRateLimited, used to test the properties: only the
\* first credential with the secret is stamped.
MarkRateLimited_first(secret) ==
  /\ current_key_index < MaxIndex
  /\ keys' = [i \in 1..Len(keys) |->
                IF keys[i].key = secret
                   /\ \A j \in 1..(i - 1) : keys[j].key # secret
                THEN [keys[i] EXCEPT !.rate_limited_until = now]
                ELSE keys[i]]
  /\ current_key_index' = current_key_index + 1
  /\ rtLast' = Seen("mark_rate_limited", secret, <<>>, NoArg, Raise("none"),
                    [World EXCEPT !.keys = keys'])
  /\ rtLog' = <<>>
  /\ rrRun' = NoRun
  /\ UNCHANGED <<now, cbVars, cbObs, tqVars, tqObs, wkVars, prVars, lcVars, handed>>

\* mark_rate_limited(model_name, key).
MarkRateLimited(secret) ==
  /\ current_key_index < MaxIndex
  /\ keys' = [i \in 1..Len(keys) |->
                IF keys[i].key = secret
                THEN [keys[i] EXCEPT !.rate_limited_until = now]
                ELSE keys[i]]
  /\ current_key_index' = current_key_index + 1
  /\ rtLast' = Seen("mark_rate_limited", secret, <<>>, NoArg, Raise("none"),
                    [World EXCEPT !.keys = keys'])
  /\ rtLog' = <<>>
  /\ rrRun' = NoRun
  /\ UNCHANGED <<now, cbVars, cbObs, tqVars, tqObs, wkVars, prVars, lcVars, handed>>

\* Time passing between operations.
Wait(d) ==
  /\ InTime(now + d)
  /\ now' = now + d
  /\ UNCHANGED <<cbVars, cbObs, rtVars, rtObs, tqVars, tqObs, wkVars, prVars, lcVars>>

\* -------------------------------------------------------- power recovery
\* src/core/power_recovery.py.  The files of state_dir outlive the process.

Agents == {"agent-1", "agent-2"}
Steps == 0..MaxStep
CheckpointStatuses == {"in_progress", "done"}
\* data: omitted (None), a dict JSON keeps as it is, a dict with an int key.
Datas == {"None", "{'a': 1}", "{1: 2}"}

\* A file that does not exist.
NoFile == [status |-> "absent", at |-> NoTime]
NoCheckpoint == [step |-> 0, status |-> "absent", data |-> "absent"]

\* A variant of the query below, used to test the properties.
detect_interruption_exists(file) == file # NoFile

\* detect_interruption: False without the file, else status == "running".
detect_interruption(file) ==
  IF file = NoFile THEN FALSE ELSE file.status = "running"

mark_running(t) == [status |-> "running", at |-> t]

mark_shutdown(t) == [status |-> "stopped", at |-> t]

\* Line 42: `data or {}`.
or_empty(data) == IF data \in {"None", "{}"} THEN "{}" ELSE data

\* Lines 46-47 and 56-57: what json.load reads back of what json.dump
\* wrote; the keys of a JSON object are strings.
json_image(data) == IF data = "{1: 2}" THEN "{'1': 2}" ELSE data

\* A variant of save_checkpoint, used to test the properties: one file for
\* all agents.
save_checkpoint_shared(cps, agent_id, step, status, data) ==
  [a \in DOMAIN cps |->
     [step |-> step, status |-> status, data |-> json_image(or_empty(data))]]

\* save_checkpoint writes the agent's file anew.
save_checkpoint(cps, agent_id, step, status, data) ==
  [cps EXCEPT ![agent_id] =
     [step |-> step, status |-> status, data |-> json_image(or_empty(data))]]

load_checkpoint(cps, agent_id) == cps[agent_id]

\* `with open(file, 'w') as f: json.dump(record, f)` (lines 46-47, 79-80,
\* 88-89) when the process is killed inside it: open truncates the file in
\* place, dump writes through the buffer and the end of the block flushes
\* and closes.  Killed before open the file is as it was, killed after the
\* close it is the new record, killed between the two it is empty or a
\* prefix of the new record.
CrashPoints == {"before_open", "after_open", "after_close"}
TornFile == [status |-> "torn", at |-> NoTime]
TornCheckpoint == [step |-> 0, status |-> "torn", data |-> "absent"]
crash_write(old, new, torn, point) ==
  IF point = "before_open" THEN old
  ELSE IF point = "after_close" THEN new
  ELSE torn

\* json.load (lines 57 and 69) raises JSONDecodeError on an empty or cut
\* file.
Unreadable(file) == file.status = "torn"

\* fleet_registry["agents"], in the order of the list.
FleetRegistry == <<"agent-1", "agent-2">>

\* _ping_agent: a placeholder that answers True for every agent.
ping_agent(agent) == TRUE

\* A variant of agent_status, used to test the properties: an online agent
\* with any checkpoint resumes.
agent_status_any(agent_id, is_online, checkpoint) ==
  [id |-> agent_id, online |-> is_online, last_checkpoint |-> checkpoint,
   action |-> IF ~is_online THEN "restart_required"
              ELSE IF checkpoint # NoCheckpoint THEN "resume" ELSE "idle",
   resume_from_step |-> IF is_online /\ checkpoint # NoCheckpoint
                        THEN checkpoint.step ELSE NoTime]

\* recover, lines 121-145: one agent's entry of the report;
\* resume_from_step is set for "resume" only (NoTime: the key is absent).
agent_status(agent_id, is_online, checkpoint) ==
  LET resumes == /\ is_online
                 /\ checkpoint # NoCheckpoint
                 /\ checkpoint.status = "in_progress"
  IN  [id |-> agent_id, online |-> is_online, last_checkpoint |-> checkpoint,
       action |-> IF ~is_online THEN "restart_required"
                  ELSE IF resumes THEN "resume" ELSE "idle",
       resume_from_step |-> IF resumes THEN checkpoint.step ELSE NoTime]

\* recover: one entry per agent of the registry, and the counts of the
\* summary.
recover(cps, registry) ==
  LET entries == [i \in DOMAIN registry |->
                    agent_status(registry[i], ping_agent(registry[i]),
                                 load_checkpoint(cps, registry[i]))]
      count(P(_)) == Cardinality({i \in DOMAIN entries : P(entries[i])})
  IN  [agents |-> entries,
       online |-> count(LAMBDA e : e.online),
       offline |-> count(LAMBDA e : ~e.online),
       resuming |-> count(LAMBDA e : e.action = "resume")]

NoReport == [agents |-> <<>>, online |-> 0, offline |-> 0, resuming |-> 0]

\* Observation of one PowerRecovery operation; mark is the last of
\* mark_running and mark_shutdown that was called.
Noted(op, agent_id, ret, cp) ==
  [op |-> op, agent |-> agent_id, ret |-> ret, cp |-> cp,
   mark |-> IF op \in {"mark_running", "mark_shutdown"} THEN op
            ELSE prLast.mark,
   exc |-> "none"]

\* Observation of an operation that json.load's exception left.
NotedRaise(op, agent_id) ==
  [Noted(op, agent_id, FALSE, NoCheckpoint) EXCEPT !.exc = "JSONDecodeError"]

RecoveryInit ==
  /\ last_state = NoFile
  /\ checkpoints = [a \in Agents |-> NoCheckpoint]
  /\ saved = [a \in Agents |-> NoCheckpoint]
  /\ report = NoReport
  /\ prLast = [op |-> "none", agent |-> "", ret |-> FALSE, cp |-> NoCheckpoint,
               mark |-> "none", exc |-> "none"]
  /\ pc = "down"
  /\ current_step = "idle"
  /\ recovered = FALSE
  /\ prevExit = "none"
  /\ acked = [tasks |-> <<>>, seq |-> 0]

\* What a PowerRecovery operation leaves alone.
RecoveryFrame ==
  UNCHANGED <<now, cbVars, cbObs, rtVars, rtObs, tqVars, tqObs, wkVars, lcVars>>

MarkRunning ==
  /\ last_state' = mark_running(now)
  /\ prLast' = Noted("mark_running", "", FALSE, NoCheckpoint)
  /\ report' = NoReport
  /\ UNCHANGED <<checkpoints, saved>>
  /\ RecoveryFrame

MarkShutdown ==
  /\ last_state' = mark_shutdown(now)
  /\ prLast' = Noted("mark_shutdown", "", FALSE, NoCheckpoint)
  /\ report' = NoReport
  /\ UNCHANGED <<checkpoints, saved>>
  /\ RecoveryFrame

DetectInterruption ==
  /\ prLast' = IF Unreadable(last_state)
               THEN NotedRaise("detect_interruption", "")
               ELSE Noted("detect_interruption", "",
                          detect_interruption(last_state), NoCheckpoint)
  /\ report' = NoReport
  /\ UNCHANGED <<last_state, checkpoints, saved>>
  /\ RecoveryFrame

SaveCheckpoint(agent_id, step, status, data) ==
  /\ checkpoints' = save_checkpoint(checkpoints, agent_id, step, status, data)
  /\ prLast' = Noted("save_checkpoint", agent_id, FALSE,
                     checkpoints'[agent_id])
  /\ saved' = [saved EXCEPT ![agent_id] =
                 [step |-> step, status |-> status, data |-> data]]
  /\ report' = NoReport
  /\ UNCHANGED last_state
  /\ RecoveryFrame

LoadCheckpoint(agent_id) ==
  /\ prLast' = IF Unreadable(checkpoints[agent_id])
               THEN NotedRaise("load_checkpoint", agent_id)
               ELSE Noted("load_checkpoint", agent_id, FALSE,
                          load_checkpoint(checkpoints, agent_id))
  /\ report' = NoReport
  /\ UNCHANGED <<last_state, checkpoints, saved>>
  /\ RecoveryFrame

\* recover raises what load_checkpoint raises (line 119), before any report.
Recover ==
  /\ IF \E i \in DOMAIN FleetRegistry : Unreadable(checkpoints[FleetRegistry[i]])
     THEN /\ report' = NoReport
          /\ prLast' = NotedRaise("recover", "")
     ELSE /\ report' = recover(checkpoints, FleetRegistry)
          /\ prLast' = Noted("recover", "", FALSE, NoCheckpoint)
  /\ UNCHANGED <<last_state, checkpoints, saved>>
  /\ RecoveryFrame

\* The process is killed inside save_checkpoint(agent_id, step, status,
\* data); cp of the observation is the file as it was before the call.
KilledInSave(agent_id, step, status, data, point) ==
  /\ checkpoints' =
       [checkpoints EXCEPT ![agent_id] =
          crash_write(@, save_checkpoint(checkpoints, agent_id, step, status,
                                         data)[agent_id],
                      TornCheckpoint, point)]
  /\ prLast' = Noted("killed_in_save", agent_id, FALSE, checkpoints[agent_id])
  /\ saved' = [saved EXCEPT ![agent_id] =
                 [step |-> step, status |-> status, data |-> data]]
  /\ report' = NoReport
  /\ UNCHANGED last_state
  /\ RecoveryFrame

\* The process is killed inside mark_running (running) or mark_shutdown.
KilledInMark(running, point) ==
  /\ last_state' = crash_write(last_state,
                               IF running THEN mark_running(now)
                               ELSE mark_shutdown(now),
                               TornFile, point)
  /\ prLast' = Noted("killed_in_mark", "", running, NoCheckpoint)
  /\ report' = NoReport
  /\ UNCHANGED <<checkpoints, saved>>
  /\ RecoveryFrame

\* ------------------------------------------------------------ task queue
\* src/core/task_queue.py.  Timestamps are SQLite CURRENT_TIMESTAMP values,
\* whole seconds; NoTime stands for a NULL timestamp.

TaskStatus == {"pending", "in_progress", "completed", "failed", "cancelled"}

LOW == 0
NORMAL == 1
HIGH == 2
CRITICAL == 3
TaskPriority == {LOW, NORMAL, HIGH, CRITICAL}

Null == "NULL"
DaySeconds == 86400

\* The database one connection sees: the rows of tasks, the AUTOINCREMENT
\* sequence and the connection's count of changed rows.
DB == [tasks |-> tasks, seq |-> seq, changes |-> total_changes]

\* The row an INSERT creates: column defaults of _init_database.
NewRow(priority, assigned_to, t) ==
  [priority |-> priority, status |-> "pending", assigned_to |-> assigned_to,
   created_at |-> t, updated_at |-> t, started_at |-> NoTime,
   completed_at |-> NoTime, error |-> Null]

\* A variant of add_task, used to test the properties: the id is one more
\* than the highest id stored, as for a key without AUTOINCREMENT.
add_task_rowid(db, priority, assigned_to, t) ==
  LET top == IF DOMAIN db.tasks = {} THEN 0
             ELSE CHOOSE i \in DOMAIN db.tasks : \A j \in DOMAIN db.tasks : j <= i
      task_id == top + 1
  IN  [db |-> [tasks |-> (task_id :> NewRow(priority, assigned_to, t))
                          @@ db.tasks,
               seq |-> task_id,
               changes |-> db.changes + 1],
       ret |-> task_id]

\* add_task: INSERT into a table whose id is INTEGER PRIMARY KEY
\* AUTOINCREMENT (line 59); returns cursor.lastrowid.
add_task(db, priority, assigned_to, t) ==
  LET task_id == db.seq + 1
  IN  [db |-> [tasks |-> (task_id :> NewRow(priority, assigned_to, t))
                          @@ db.tasks,
               seq |-> task_id,
               changes |-> db.changes + 1],
       ret |-> task_id]

\* Variants of the queries below, used to test the properties.
Precedes_fifo(db, i, j) == i < j

Purgeable_inclusive(row, days, t) ==
  /\ row.status \in {"completed", "failed"}
  /\ row.completed_at # NoTime
  /\ row.completed_at <= t - days * DaySeconds

\* WHERE status = 'pending' [AND assigned_to = ?]; the filter is added only
\* for a truthy argument, and a NULL column never equals the argument.
Candidates(db, assigned_to) ==
  {i \in DOMAIN db.tasks :
     /\ db.tasks[i].status = "pending"
     /\ assigned_to # "" => db.tasks[i].assigned_to = assigned_to}

\* ORDER BY priority DESC, created_at ASC; rows equal in both come in rowid
\* order.
Precedes(db, i, j) ==
  \/ db.tasks[i].priority > db.tasks[j].priority
  \/ /\ db.tasks[i].priority = db.tasks[j].priority
     /\ db.tasks[i].created_at < db.tasks[j].created_at
  \/ /\ db.tasks[i].priority = db.tasks[j].priority
     /\ db.tasks[i].created_at = db.tasks[j].created_at
     /\ i < j

\* The id of the row LIMIT 1 returns, or 0 for no row (None).
get_next_task(db, assigned_to) ==
  LET c == Candidates(db, assigned_to)
  IN  IF c = {} THEN 0
      ELSE CHOOSE i \in c : \A j \in c \ {i} : Precedes(db, i, j)

\* UPDATE tasks SET ... WHERE id = ?: changes the row if there is one.
Update(db, task_id, row) ==
  IF task_id \in DOMAIN db.tasks
  THEN [db EXCEPT !.tasks[task_id] = row, !.changes = @ + 1]
  ELSE db

start_task(db, task_id, t) ==
  IF task_id \in DOMAIN db.tasks
  THEN Update(db, task_id, [db.tasks[task_id] EXCEPT !.status = "in_progress",
                                                     !.started_at = t,
                                                     !.updated_at = t])
  ELSE db

complete_task(db, task_id, t) ==
  IF task_id \in DOMAIN db.tasks
  THEN Update(db, task_id, [db.tasks[task_id] EXCEPT !.status = "completed",
                                                     !.completed_at = t,
                                                     !.updated_at = t])
  ELSE db

fail_task(db, task_id, error, t) ==
  IF task_id \in DOMAIN db.tasks
  THEN Update(db, task_id, [db.tasks[task_id] EXCEPT !.status = "failed",
                                                     !.error = error,
                                                     !.updated_at = t])
  ELSE db

get_task_status(db, task_id) ==
  IF task_id \in DOMAIN db.tasks THEN db.tasks[task_id].status ELSE "None"

\* status IN ('completed','failed') AND datetime(completed_at) <
\* datetime('now', '-N days'); a NULL completed_at compares as NULL.
Purgeable(row, days, t) ==
  /\ row.status \in {"completed", "failed"}
  /\ row.completed_at # NoTime
  /\ row.completed_at < t - days * DaySeconds

\* Returns conn.total_changes, the connection's running count.
cleanup_old_tasks(db, days, t) ==
  LET gone == {i \in DOMAIN db.tasks : Purgeable(db.tasks[i], days, t)}
      left == [i \in DOMAIN db.tasks \ gone |-> db.tasks[i]]
      n == db.changes + Cardinality(gone)
  IN  [db |-> [db EXCEPT !.tasks = left, !.changes = n], ret |-> n]

\* executor_func either returns, raises, raises asyncio.TimeoutError itself,
\* or is cancelled by wait_for when the deadline passes.
Outcomes == {"returns", "raises", "raises TimeoutError", "deadline"}

TimedOut(secs) == "Execution timed out (" \o ToString(secs) \o "s)"

\* A variant of execute_with_timeout, used to test the properties: after a
\* timeout executor_func is run once more.
execute_with_timeout_again(db, task_id, outcome, secs, t) ==
  LET t1 == IF outcome = "deadline" THEN t + secs ELSE t
  IN  IF outcome \in {"raises TimeoutError", "deadline"}
      THEN [db |-> fail_task(db, task_id, TimedOut(secs), t1), t |-> t1,
            exc |-> "TimeoutError", runs |-> 2]
      ELSE [db |-> db, t |-> t1, runs |-> 1,
            exc |-> IF outcome = "raises" THEN "Exception" ELSE "none"]

\* Lines 263-268: executor_func is awaited once under wait_for (runs); a
\* TimeoutError marks the task failed and is raised again.
execute_with_timeout(db, task_id, outcome, secs, t) ==
  LET t1 == IF outcome = "deadline" THEN t + secs ELSE t
  IN  IF outcome \in {"raises TimeoutError", "deadline"}
      THEN [db |-> fail_task(db, task_id, TimedOut(secs), t1), t |-> t1,
            exc |-> "TimeoutError", runs |-> 1]
      ELSE [db |-> db, t |-> t1, runs |-> 1,
            exc |-> IF outcome = "raises" THEN "Exception" ELSE "none"]

\* Observation of one queue operation; pid is the task the operation just
\* before it completed (0 when that was not a complete_task of a stored
\* task) and pat the time of that completion.
NoOp ==
  [op |-> "none", id |-> 0, who |-> "", n |-> 0, ret |-> 0, exc |-> "none",
   at |-> 0, hit |-> FALSE, pid |-> 0, pat |-> 0]

Did(op, task_id, who, n, ret, exc, t) ==
  [op |-> op, id |-> task_id, who |-> who, n |-> n, ret |-> ret, exc |-> exc,
   at |-> t, hit |-> task_id \in DOMAIN tasks,
   pid |-> IF tqLast.op = "complete_task" /\ tqLast.hit THEN tqLast.id ELSE 0,
   pat |-> IF tqLast.op = "complete_task" /\ tqLast.hit THEN tqLast.at ELSE 0]

Workers == {"w1", "w2"}

\* Threads of the process that share the one breaker and the one router.
Threads == {"t1", "t2"}

\* The locals of a thread: the argument of the operation it runs (a service
\* name or a provider), the value it last loaded from a shared field, the
\* length of provider_keys and the pool position it picked, and
\* observations: how many operations it has finished and the position its
\* last one returned.
NoLocals ==
  [arg |-> "none", read |-> 0, len |-> 0, cred |-> 0, done |-> 0, ret |-> 0]

QueueInit ==
  /\ tasks = <<>>
  /\ seq = 0
  /\ total_changes = 0
  /\ tqLast = NoOp
  /\ dispatched = <<>>
  /\ issued = 0
  /\ wpc = [w \in Workers |-> "idle"]
  /\ wtask = [w \in Workers |-> 0]
  /\ delivered = [w \in Workers |-> {}]
  /\ tpc = [t \in Threads |-> "idle"]
  /\ tloc = [t \in Threads |-> NoLocals]
  /\ committed = [tasks |-> <<>>, seq |-> 0]
  /\ RecoveryInit

\* A variant of commit, used to test the properties.
commit_lost(db) == committed

\* conn.commit(), the last statement of every writing operation: the rows
\* and the sequence reach the database file.
commit(db) == [tasks |-> db.tasks, seq |-> db.seq]

\* Write the database an operation leaves behind.
Store(db, t) ==
  /\ db.seq <= MaxTasks
  /\ db.changes <= MaxChanges
  /\ t <= MaxQueueTime
  /\ tasks' = db.tasks
  /\ seq' = db.seq
  /\ total_changes' = db.changes
  /\ committed' = commit(db)
  /\ now' = t
  /\ UNCHANGED <<cbVars, cbObs, rtVars, rtObs>>

Range(s) == {s[i] : i \in DOMAIN s}

TaskIds == 1..MaxTasks
Assignees == {"agent-1"}
Errors == {"boom"}
ExecTimeouts == {1}
CleanupDays == {0, 1}

AddTask(priority, assigned_to) ==
  LET r == add_task(DB, priority, assigned_to, now)
  IN  /\ Store(r.db, now)
      /\ tqLast' = Did("add_task", r.ret, assigned_to, priority, r.ret, "none",
                       now)
      /\ dispatched' = <<>>
      /\ issued' = IF r.ret > issued THEN r.ret ELSE issued
      /\ UNCHANGED <<wkVars, prVars, lcVars>>

\* A variant of GetNextTask, used to test the properties: the dequeue also
\* claims the row it returns.
GetNextTask_claiming(assigned_to) ==
  /\ Store(start_task(DB, get_next_task(DB, assigned_to), now), now)
  /\ tqLast' = Did("get_next_task", 0, assigned_to, 0,
                   get_next_task(DB, assigned_to), "none", now)
  /\ UNCHANGED <<dispatched, issued, wkVars, prVars, lcVars>>

\* get_next_task runs one SELECT and returns the row: no statement of it
\* writes, and it does not commit.
GetNextTask(assigned_to) ==
  /\ tqLast' = Did("get_next_task", 0, assigned_to, 0,
                   get_next_task(DB, assigned_to), "none", now)
  /\ UNCHANGED <<now, cbVars, cbObs, rtVars, rtObs, tqVars, dispatched, issued, wkVars, prVars, lcVars>>

\* A started task counts as dispatched when it is the one the unfiltered
\* dequeue just before returned.
StartTask(task_id) ==
  /\ Store(start_task(DB, task_id, now), now)
  /\ tqLast' = Did("start_task", task_id, "", 0, 0, "none", now)
  /\ dispatched' = IF /\ tqLast.op = "get_next_task"
                      /\ tqLast.who = ""
                      /\ tqLast.ret = task_id
                   THEN Append(dispatched, task_id)
                   ELSE dispatched
  /\ UNCHANGED issued
  /\ UNCHANGED <<wkVars, prVars, lcVars>>

CompleteTask(task_id) ==
  /\ Store(complete_task(DB, task_id, now), now)
  /\ tqLast' = Did("complete_task", task_id, "", 0, 0, "none", now)
  /\ UNCHANGED <<dispatched, issued, wkVars, prVars, lcVars>>

FailTask(task_id, error) ==
  /\ Store(fail_task(DB, task_id, error, now), now)
  /\ tqLast' = Did("fail_task", task_id, error, 0, 0, "none", now)
  /\ UNCHANGED <<dispatched, issued, wkVars, prVars, lcVars>>

GetTaskStatus(task_id) ==
  /\ tqLast' = Did("get_task_status", task_id, get_task_status(DB, task_id),
                   0, 0, "none", now)
  /\ UNCHANGED <<now, cbVars, cbObs, rtVars, rtObs, tqVars, dispatched, issued, wkVars, prVars, lcVars>>

CleanupOldTasks(days) ==
  LET r == cleanup_old_tasks(DB, days, now)
  IN  /\ Store(r.db, now)
      /\ tqLast' = Did("cleanup_old_tasks", 0, "", days, r.ret, "none", now)
      /\ UNCHANGED <<dispatched, issued, wkVars, prVars, lcVars>>

ExecuteWithTimeout(task_id, outcome, secs) ==
  LET r == execute_with_timeout(DB, task_id, outcome, secs, now)
  IN  /\ Store(r.db, r.t)
      /\ tqLast' = Did("execute_with_timeout", task_id, outcome, secs,
                       r.runs, r.exc, r.t)
      /\ UNCHANGED <<dispatched, issued, wkVars, prVars, lcVars>>

\* One worker's dispatch sequence: get_next_task, then start_task on the
\* task it returned.
WorkerGet(w) ==
  /\ wpc[w] = "idle"
  /\ LET task_id == get_next_task(DB, "")
     IN  /\ wtask' = [wtask EXCEPT ![w] = task_id]
         /\ wpc' = [wpc EXCEPT ![w] = IF task_id = 0 THEN "idle" ELSE "got"]
         /\ delivered' = [delivered EXCEPT
                            ![w] = IF task_id = 0 THEN @ ELSE @ \cup {task_id}]
         /\ tqLast' = Did("get_next_task", 0, "", 0, task_id, "none", now)
  /\ UNCHANGED <<now, cbVars, cbObs, rtVars, rtObs, tqVars, dispatched, issued, prVars, lcVars>>
  /\ UNCHANGED <<tpc, tloc>>

WorkerStart(w) ==
  /\ wpc[w] = "got"
  /\ Store(start_task(DB, wtask[w], now), now)
  /\ wpc' = [wpc EXCEPT ![w] = "idle"]
  /\ tqLast' = Did("start_task", wtask[w], "", 0, 0, "none", now)
  /\ UNCHANGED <<wtask, delivered, dispatched, issued, prVars, lcVars>>
  /\ UNCHANGED <<tpc, tloc>>

QTick ==
  /\ now < MaxQueueTime
  /\ now' = now + 1
  /\ UNCHANGED <<cbVars, cbObs, rtVars, rtObs, tqVars, tqObs, wkVars, prVars, lcVars>>

InitQueue ==
  /\ now = 1
  /\ CBInit(RouterFailureThreshold, RouterTimeout, RouterSuccessThreshold)
  /\ RouterInit
  /\ QueueInit

\* Enqueue, then dequeue and start what the dequeue returned.
NextDispatch ==
  \/ \E p \in {LOW, HIGH}, a \in {Null} \cup Assignees : AddTask(p, a)
  \/ \E a \in {""} \cup Assignees : GetNextTask(a)
  \/ /\ tqLast.op = "get_next_task"
     /\ tqLast.ret # 0
     /\ StartTask(tqLast.ret)
  \/ QTick

SpecDispatch == InitQueue /\ [][NextDispatch]_vars

\* Every queue operation, on any task id of a shorter table.
QueueIds == 1..MaxQueueTasks

\* Room for one more change within the shorter run.
QueueRoom == total_changes < MaxQueueChanges

NextQueue ==
  \/ \E p \in {LOW, HIGH} :
       QueueRoom /\ seq < MaxQueueTasks /\ AddTask(p, Null)
  \/ GetNextTask("")
  \/ \E i \in QueueIds : QueueRoom /\ StartTask(i)
  \/ \E i \in QueueIds : QueueRoom /\ CompleteTask(i)
  \/ \E i \in QueueIds, e \in Errors : QueueRoom /\ FailTask(i, e)
  \/ \E i \in QueueIds : GetTaskStatus(i)
  \/ \E d \in CleanupDays : QueueRoom /\ CleanupOldTasks(d)
  \/ \E i \in QueueIds, o \in Outcomes, s \in ExecTimeouts :
       QueueRoom /\ ExecuteWithTimeout(i, o, s)
  \/ QTick

SpecQueue == InitQueue /\ [][NextQueue]_vars

\* ------------------------------------------------------------ the process
\* src/main.py, src/core/orchestrator.py, src/core/shutdown.py: a run of the
\* process constructs the Executor, enters run() and ends by a clean
\* shutdown or by being killed.

\* state/current_step.json: no code of the repository writes it.
CurrentStepFile == "absent"

\* Executor._load_state: the file's status, or the default.
load_state(file) == IF file = "absent" THEN "idle" ELSE file

\* sqlite3.connect on the database file: a new connection.
open_database(file) == [tasks |-> file.tasks, seq |-> file.seq, changes |-> 0]

\* The connection of a process that is gone.
NoConnection == [tasks |-> <<>>, seq |-> 0, changes |-> 0]

Connect(db) ==
  /\ tasks' = db.tasks
  /\ seq' = db.seq
  /\ total_changes' = db.changes
  /\ UNCHANGED committed

LifeFrame == UNCHANGED <<now, cbVars, cbObs, rtVars, rtObs, tqObs, wkVars>>

\* Executor.__init__: opens the task queue and loads current_step.
Startup ==
  /\ pc = "down"
  /\ pc' = "init"
  /\ Connect(open_database(committed))
  /\ current_step' = load_state(CurrentStepFile)
  /\ recovered' = FALSE
  /\ UNCHANGED <<prVars, prevExit, acked>>
  /\ LifeFrame

\* Executor.run up to the main loop: the recovery pass is taken when
\* current_step says "interrupted".
Run ==
  /\ pc = "init"
  /\ pc' = "main_loop"
  /\ recovered' = (current_step = "interrupted")
  /\ UNCHANGED <<tqVars, prVars, current_step, prevExit, acked>>
  /\ LifeFrame

\* The process is killed: nothing of the shutdown path runs.
Kill ==
  /\ pc \in {"init", "main_loop"}
  /\ pc' = "down"
  /\ prevExit' = "killed"
  /\ acked' = [tasks |-> tasks, seq |-> seq]
  /\ Connect(NoConnection)
  /\ UNCHANGED <<prVars, current_step, recovered>>
  /\ LifeFrame

\* SIGTERM or SIGINT: ShutdownHandler.shutdown marks the shutdown and closes
\* the queue.
Shutdown ==
  /\ pc \in {"init", "main_loop"}
  /\ pc' = "down"
  /\ prevExit' = "clean"
  /\ last_state' = mark_shutdown(now)
  /\ prLast' = Noted("mark_shutdown", "", FALSE, NoCheckpoint)
  /\ acked' = [tasks |-> tasks, seq |-> seq]
  /\ Connect(NoConnection)
  /\ UNCHANGED <<checkpoints, saved, report, current_step, recovered>>
  /\ LifeFrame

InitLife ==
  /\ now = 1
  /\ CBInit(RouterFailureThreshold, RouterTimeout, RouterSuccessThreshold)
  /\ RouterInit
  /\ QueueInit

\* Runs of the process, writing to the queue while in the main loop.
NextLife ==
  \/ Startup
  \/ Run
  \/ Kill
  \/ Shutdown
  \/ pc = "main_loop" /\ QueueRoom /\ seq < MaxQueueTasks
       /\ AddTask(NORMAL, Null)
  \/ \E i \in QueueIds : pc = "main_loop" /\ QueueRoom /\ StartTask(i)
  \/ \E i \in QueueIds : pc = "main_loop" /\ QueueRoom /\ CompleteTask(i)
  \/ \E i \in QueueIds, e \in Errors :
       pc = "main_loop" /\ QueueRoom /\ FailTask(i, e)

SpecLife == InitLife /\ [][NextLife]_vars

\* The PowerRecovery operations, in any order.
NextRecovery ==
  \/ MarkRunning
  \/ MarkShutdown
  \/ DetectInterruption
  \/ \E a \in Agents, n \in Steps, st \in CheckpointStatuses, d \in Datas :
       SaveCheckpoint(a, n, st, d)
  \/ \E a \in Agents : LoadCheckpoint(a)
  \/ Recover

SpecRecovery == InitLife /\ [][NextRecovery]_vars

\* The same operations with kills inside the three that write a file; the
\* next operation is the restarted process reading the files.
NextCrash ==
  \/ MarkRunning
  \/ MarkShutdown
  \/ \E running \in BOOLEAN, point \in CrashPoints : KilledInMark(running, point)
  \/ DetectInterruption
  \/ \E a \in Agents, n \in Steps, st \in CheckpointStatuses, d \in {"None"} :
       SaveCheckpoint(a, n, st, d)
  \/ \E a \in Agents, n \in Steps, st \in CheckpointStatuses, d \in {"None"},
        point \in CrashPoints :
       KilledInSave(a, n, st, d, point)
  \/ \E a \in Agents : LoadCheckpoint(a)
  \/ Recover

SpecCrash == InitLife /\ [][NextCrash]_vars

\* Workers dispatching concurrently from one queue.
NextWorkers ==
  \/ \E p \in {LOW, HIGH} : AddTask(p, Null)
  \/ \E w \in Workers : WorkerGet(w)
  \/ \E w \in Workers : WorkerStart(w)
  \/ QTick

SpecWorkers == InitQueue /\ [][NextWorkers]_vars

InitRouter ==
  /\ now = 0
  /\ CBInit(RouterFailureThreshold, RouterTimeout, RouterSuccessThreshold)
  /\ RouterInit
  /\ QueueInit

\* Acquisition with retries and fallback.  Credentials are added for one
\* paid provider, each with a secret of its own; the other paid provider
\* stays without credentials.
NextRouter ==
  \/ \E p \in {"google-ai-pro"} : AddKey(p, FreshSecret[Len(keys)])
  \/ \E m \in RequestModels : GetModelWithKey(m)
  \/ \E m \in PreferredModels, chain \in Chains, retries \in RetryArgs :
       SelectWithFallback(m, chain, retries)
  \/ \E d \in {RouterTimeout, RouterTimeout + 1} : Wait(d)

SpecRouter == InitRouter /\ [][NextRouter]_vars

\* select_model on top of the same acquisitions.
NextSelect ==
  \/ \E p \in {"google-ai-pro"} : AddKey(p, FreshSecret[Len(keys)])
  \/ \E c \in Complexities, b \in Budgets, f \in ForcedModels :
       SelectModel(c, b, f)
  \/ \E d \in {RouterTimeout, RouterTimeout + 1} : Wait(d)

SpecSelect == InitRouter /\ [][NextSelect]_vars

\* Requests that name the CRITICAL tier or its model.
NextCritical ==
  \/ \E p \in {"google-ai-pro"} : AddKey(p, FreshSecret[Len(keys)])
  \/ \E c \in Complexities, b \in Budgets, f \in ForcedModels :
       SelectModel(c, b, f)
  \/ \E chain \in {<<>>, <<"claude-4.5-opus">>}, retries \in {NoArg, 1} :
       SelectWithFallback("claude-4.5-opus", chain, retries)
  \/ \E d \in {RouterTimeout, RouterTimeout + 1} : Wait(d)

SpecCritical == InitRouter /\ [][NextCritical]_vars

\* Long retry loops: enough attempts for the delay to reach MAX_BACKOFF.
NextBackoff ==
  \/ \E p \in {"google-ai-pro"} : AddKey(p, FreshSecret[Len(keys)])
  \/ \E m \in {"no-such-model", "gemini-3-pro"},
        chain \in {<<>>, <<"no-such-model", "gemini-3-pro">>},
        retries \in {NoArg, 0, 1, MaxLongRetries} :
       SelectWithFallback(m, chain, retries)
  \/ \E d \in {RouterTimeout, RouterTimeout + 1} : Wait(d)

SpecBackoff == InitRouter /\ [][NextBackoff]_vars

\* Acquisition of FREE and paid models with credentials in the pool for the
\* providers of both.
FreeModels == {"opencode-claude", "gemini-flash-lite"}
NextFree ==
  \/ \E p \in {"opencode", "google", "google-ai-pro"} :
       AddKey(p, FreshSecret[Len(keys)])
  \/ \E m \in FreeModels \cup {"gemini-3-pro", "chatgpt-5.2-plus"} :
       GetModelWithKey(m)
  \/ \E d \in {RouterTimeout, RouterTimeout + 1} : Wait(d)

SpecFree == InitRouter /\ [][NextFree]_vars

\* The credential pool alone: rotation by direct _select_key_for_provider
\* calls, with secrets that may repeat.
NextPool ==
  \/ \E p \in KeyProviders, secret \in Secrets : AddKey(p, secret)
  \/ \E p \in Providers : SelectKeyForProvider(p)
  \/ \E secret \in Secrets : MarkRateLimited(secret)
  \/ Wait(1)

SpecPool == InitRouter /\ [][NextPool]_vars

CallOk(k) == \E d \in 0..1 : Call(k, TRUE, d)
CallFail(k) == \E d \in 0..1 : Call(k, FALSE, d)

Tick ==
  /\ now < MaxTime
  /\ now' = now + 1
  /\ UNCHANGED <<cbVars, cbObs, rtVars, rtObs, tqVars, tqObs, wkVars, prVars, lcVars>>

InitCB ==
  /\ now = 0
  /\ RouterInit
  /\ QueueInit
  /\ \E ft \in 1..MaxThreshold, to \in 1..MaxTimeout, st \in 1..MaxThreshold :
       CBInit(ft, to, st)

NextCB ==
  \/ \E k \in CallKeys : CallOk(k)
  \/ \E k \in CallKeys : CallFail(k)
  \/ Tick

SpecCB == InitCB /\ [][NextCB]_vars

\* ---------------------------------------------- the breaker under threads
\* CircuitBreaker takes no lock (circuit_breaker.py 48-118), so calls of
\* several threads on one service name interleave: between the gate and the
\* bookkeeping lies the whole run of func, and inside _on_failure the load
\* and the store of line 106 are separate steps.
ThreadKeys == {"svc_a"}

\* Lines 61-76: the gate.  A rejected call raises and changes nothing.
CallEnter(t, k) ==
  /\ tpc[t] = "idle"
  /\ ~admit(Breaker, k, now).rejected
  /\ SetBreaker(admit(Breaker, k, now).cb)
  /\ tpc' = [tpc EXCEPT ![t] = "func"]
  /\ tloc' = [tloc EXCEPT ![t].arg = k]
  /\ UNCHANGED <<now, failure_threshold, timeout, success_threshold, cbObs>>
  /\ UNCHANGED <<wpc, wtask, delivered>>
  /\ UNCHANGED <<rtVars, rtObs, tqVars, tqObs, prVars, lcVars>>

\* Lines 79-81: func returned; _on_success on the breaker as it is now.
FuncReturns(t) ==
  /\ tpc[t] = "func"
  /\ SetBreaker(on_success(Breaker, tloc[t].arg))
  /\ failRun' = [failRun EXCEPT ![tloc[t].arg] = 0]
  /\ tpc' = [tpc EXCEPT ![t] = "idle"]
  /\ tloc' = [tloc EXCEPT ![t] = NoLocals]
  /\ UNCHANGED <<now, failure_threshold, timeout, success_threshold, cbLast, okRun>>
  /\ UNCHANGED <<wpc, wtask, delivered>>
  /\ UNCHANGED <<rtVars, rtObs, tqVars, tqObs, prVars, lcVars>>

\* Lines 84-85 and the right-hand side of line 106: func raised, and
\* _on_failure loads self.failures.get(service_name, 0).
FuncRaises(t) ==
  /\ tpc[t] = "func"
  /\ tpc' = [tpc EXCEPT ![t] = "on_failure"]
  /\ tloc' = [tloc EXCEPT ![t].read = failures[tloc[t].arg]]
  /\ UNCHANGED <<now, cbVars, cbObs>>
  /\ UNCHANGED <<wpc, wtask, delivered>>
  /\ UNCHANGED <<rtVars, rtObs, tqVars, tqObs, prVars, lcVars>>

\* The store of line 106, of the value loaded plus one, and lines 108-118.
OnFailureStore(t) ==
  /\ tpc[t] = "on_failure"
  /\ failRun[tloc[t].arg] < MaxFailures
  /\ SetBreaker(on_failure([Breaker EXCEPT !.failures[tloc[t].arg] = tloc[t].read],
                           tloc[t].arg, now))
  /\ failRun' = [failRun EXCEPT ![tloc[t].arg] = @ + 1]
  /\ tpc' = [tpc EXCEPT ![t] = "idle"]
  /\ tloc' = [tloc EXCEPT ![t] = NoLocals]
  /\ UNCHANGED <<now, failure_threshold, timeout, success_threshold, cbLast, okRun>>
  /\ UNCHANGED <<wpc, wtask, delivered>>
  /\ UNCHANGED <<rtVars, rtObs, tqVars, tqObs, prVars, lcVars>>

NextThreads ==
  \/ \E t \in Threads, k \in ThreadKeys : CallEnter(t, k)
  \/ \E t \in Threads : FuncReturns(t)
  \/ \E t \in Threads : FuncRaises(t)
  \/ \E t \in Threads : OnFailureStore(t)
  \/ Tick

SpecThreads == InitCB /\ [][NextThreads]_vars

\* ------------------------------------------------ the pool under threads
\* ModelRouter takes no lock either: _select_key_for_provider (301-317)
\* picks by the index (310), then loads and stores the index (311), then
\* loads and stores the usage count of the entry it picked (314).
MaxAcquisitions == 2

\* Lines 303-310: the provider's entries, and the pick by the index as it is
\* now.  With no entry the method returns None and changes nothing.
SelectPick(t, p) ==
  /\ tpc[t] = "idle"
  /\ tloc[t].done < MaxAcquisitions
  /\ provider_keys(keys, p) # <<>>
  /\ tpc' = [tpc EXCEPT ![t] = "picked"]
  /\ tloc' = [tloc EXCEPT ![t].arg = p,
                          ![t].len = Len(provider_keys(keys, p)),
                          ![t].cred = provider_keys(keys, p)[
                            (current_key_index % Len(provider_keys(keys, p))) + 1]]
  /\ UNCHANGED <<now, cbVars, cbObs, rtVars, rtObs>>
  /\ UNCHANGED <<wpc, wtask, delivered>>
  /\ UNCHANGED <<tqVars, tqObs, prVars, lcVars>>

\* Line 311, self.current_key_index += 1: the load.
IndexLoad(t) ==
  /\ tpc[t] = "picked"
  /\ tpc' = [tpc EXCEPT ![t] = "index_loaded"]
  /\ tloc' = [tloc EXCEPT ![t].read = current_key_index]
  /\ UNCHANGED <<now, cbVars, cbObs, rtVars, rtObs>>
  /\ UNCHANGED <<wpc, wtask, delivered>>
  /\ UNCHANGED <<tqVars, tqObs, prVars, lcVars>>

\* Line 311: the store.
IndexStore(t) ==
  /\ tpc[t] = "index_loaded"
  /\ current_key_index' = tloc[t].read + 1
  /\ tpc' = [tpc EXCEPT ![t] = "index_stored"]
  /\ UNCHANGED <<now, cbVars, cbObs, keys, rtObs, tloc>>
  /\ UNCHANGED <<wpc, wtask, delivered>>
  /\ UNCHANGED <<tqVars, tqObs, prVars, lcVars>>

\* Line 314, key_data["usage_count"] = key_data.get("usage_count", 0) + 1:
\* the load.
UsageLoad(t) ==
  /\ tpc[t] = "index_stored"
  /\ tpc' = [tpc EXCEPT ![t] = "usage_loaded"]
  /\ tloc' = [tloc EXCEPT ![t].read = keys[tloc[t].cred].usage_count]
  /\ UNCHANGED <<now, cbVars, cbObs, rtVars, rtObs>>
  /\ UNCHANGED <<wpc, wtask, delivered>>
  /\ UNCHANGED <<tqVars, tqObs, prVars, lcVars>>

\* Line 314: the store; then last_used (315) and the return (317).
UsageStore(t) ==
  /\ tpc[t] = "usage_loaded"
  /\ keys' = [keys EXCEPT ![tloc[t].cred].usage_count = tloc[t].read + 1,
                          ![tloc[t].cred].last_used = now]
  /\ tpc' = [tpc EXCEPT ![t] = "idle"]
  /\ tloc' = [tloc EXCEPT ![t].done = @ + 1, ![t].ret = tloc[t].cred]
  /\ UNCHANGED <<now, cbVars, cbObs, current_key_index, rtObs>>
  /\ UNCHANGED <<wpc, wtask, delivered>>
  /\ UNCHANGED <<tqVars, tqObs, prVars, lcVars>>

NextPoolThreads ==
  \/ \E p \in KeyProviders : AddKey(p, FreshSecret[Len(keys)])
  \/ \E t \in Threads, p \in KeyProviders : SelectPick(t, p)
  \/ \E t \in Threads : IndexLoad(t)
  \/ \E t \in Threads : IndexStore(t)
  \/ \E t \in Threads : UsageLoad(t)
  \/ \E t \in Threads : UsageStore(t)

SpecPoolThreads == InitRouter /\ [][NextPoolThreads]_vars

\* ------------------------------------------------------ router properties

Acquisitions == {i \in 1..Len(rtLog) : rtLog[i].kind = "acquire"}

\* C4: select_with_fallback never raises, and when the preferred model and
\* every fallback model fail to be acquired it returns the hardcoded FREE
\* default (opencode-claude, provider opencode, no api key, no approval).
C4_NeverRaises ==
  rtLast.op = "select_with_fallback"
    => /\ rtLast.res.exc = "none"
       /\ (\A i \in Acquisitions : rtLog[i].exc # "none")
            => /\ rtLast.res.model = "opencode-claude"
               /\ rtLast.res.provider = "opencode"
               /\ rtLast.res.tier = "free"
               /\ rtLast.res.api_key = "None"
               /\ rtLast.res.requires_approval = FALSE

C4_Witness ==
  /\ rtLast.op = "select_with_fallback"
  /\ rtLast.chain # <<>>
  /\ \A i \in Acquisitions : rtLog[i].exc # "none"
  /\ \E i \in Acquisitions : rtLog[i].exc = "CircuitOpen"
  /\ \E i \in Acquisitions : rtLog[i].exc = "ValueError"
  /\ rtLast.res = DefaultResult

\* C5: N sequential selections for a provider with N credentials return each
\* credential once, later selections repeat the same cyclic order, and with
\* two credentials and a fresh index five selections give k1,k2,k1,k2,k1.
C5_RoundRobin ==
  LET pk == provider_keys(keys, rrRun.prov)
      n == Len(pk)
      c == rrRun.creds
  IN  rrRun.prov # ""
        => /\ \A i \in 1..Len(c) : \E j \in 1..n : c[i] = pk[j]
           /\ \A i, j \in 1..Len(c) : (i < j /\ j - i < n) => c[i] # c[j]
           /\ \A i \in 1..Len(c) : i + n <= Len(c) => c[i + n] = c[i]
           /\ (rrRun.start = 0 /\ n = 2)
                => \A i \in 1..Len(c) :
                     c[i] = IF i % 2 = 1 THEN pk[1] ELSE pk[2]

C5_Witness ==
  LET pk == provider_keys(keys, rrRun.prov)
  IN  /\ rrRun.prov # ""
      /\ rrRun.start = 0
      /\ Len(pk) = 2
      /\ rrRun.creds = <<pk[1], pk[2], pk[1], pk[2], pk[1]>>

\* C6: acquiring a non-FREE model whose provider has a credential, with the
\* provider's circuit not OPEN, succeeds with the secret of the credential
\* the round-robin index selects, whose usage_count grows by exactly one.
C6_AcquisitionSucceeds ==
  (/\ rtLast.op = "get_model_with_key"
   /\ rtLast.model \in DOMAIN MODELS
   /\ rtLast.preGate # "open")
    => LET info == MODELS[rtLast.model]
           pk == provider_keys(keys, info.provider)
       IN  (info.tier # "free" /\ pk # <<>>)
             => LET i == pk[(rtLast.preIdx % Len(pk)) + 1]
                IN  /\ rtLast.res.exc = "none"
                    /\ rtLast.res.api_key = keys[i].key
                    /\ \E e \in 1..Len(rtLog) :
                         /\ rtLog[e].kind = "select"
                         /\ rtLog[e].cred = i
                         /\ keys[i].usage_count = rtLog[e].use0 + 1

\* ----------------------------------------------------- breaker properties

\* C1: after failure_threshold consecutive failing calls on a key the key is
\* OPEN, and a call that finds the key OPEN with elapsed < timeout raises
\* CircuitBreakerOpenError without invoking the operation.
C1_OpensAndFailsFast ==
  /\ \A k \in ServiceKeys :
       failRun[k] >= failure_threshold => state[k] = "open"
  /\ (cbLast.outcome # "none" /\ cbLast.pre = "open"
        /\ cbLast.elapsed < timeout)
       => (cbLast.outcome = "open" /\ ~cbLast.invoked)

C1_Witness ==
  /\ cbLast.outcome = "open"
  /\ cbLast.elapsed < timeout
  /\ failure_threshold >= 2
  /\ failRun[cbLast.key] >= failure_threshold

\* C2: in HALF_OPEN exactly success_threshold consecutive successes close the
\* circuit (fewer leave it HALF_OPEN; on closing both counters are 0), and one
\* failure in HALF_OPEN reopens it with a fresh opened_at and successes = 0.
C2_HalfOpen ==
  /\ \A k \in ServiceKeys :
       state[k] = "half_open" => okRun[k] < success_threshold
  /\ (cbLast.gate = "half_open" /\ cbLast.outcome = "ok")
       => IF okRun[cbLast.key] = success_threshold
          THEN /\ state[cbLast.key] = "closed"
               /\ failures[cbLast.key] = 0
               /\ successes[cbLast.key] = 0
          ELSE /\ okRun[cbLast.key] < success_threshold
               /\ state[cbLast.key] = "half_open"
  /\ (cbLast.gate = "half_open" /\ cbLast.outcome = "fail")
       => /\ state[cbLast.key] = "open"
          /\ opened_at[cbLast.key] = cbLast.done
          /\ successes[cbLast.key] = 0

C2_Witness ==
  /\ cbLast.gate = "half_open"
  /\ cbLast.outcome = "ok"
  /\ success_threshold = 2
  /\ cbLast.preSuccesses = 1
  /\ state[cbLast.key] = "closed"

\* C3: a success on a CLOSED key sets its failure counter to 0 whatever it
\* was, so a CLOSED key opens only at the end of failure_threshold consecutive
\* failures.
C3_SuccessResets ==
  /\ (cbLast.pre = "closed" /\ cbLast.outcome = "ok")
       => failures[cbLast.key] = 0
  /\ (cbLast.pre = "closed" /\ cbLast.outcome = "fail"
        /\ state[cbLast.key] = "open")
       => failRun[cbLast.key] >= failure_threshold

C3_Witness ==
  /\ cbLast.pre = "closed"
  /\ cbLast.outcome = "ok"
  /\ cbLast.preFailures > 0
  /\ failures[cbLast.key] = 0

\* ------------------------------------------------------- queue properties

\* The pending tasks a dequeue for assignee who chooses from.
PendingFor(who) ==
  {i \in DOMAIN tasks :
     /\ tasks[i].status = "pending"
     /\ who # "" => tasks[i].assigned_to = who}

\* Tasks a, b, c are the whole table, enqueued as A(LOW, t=1), B(HIGH, t=2),
\* C(HIGH, t=1), and every task no longer pending was dispatched since the
\* last enqueue.
Scenario(a, b, c) ==
  /\ DOMAIN tasks = {a, b, c}
  /\ Cardinality({a, b, c}) = 3
  /\ tasks[a].priority = LOW /\ tasks[a].created_at = 1
  /\ tasks[b].priority = HIGH /\ tasks[b].created_at = 2
  /\ tasks[c].priority = HIGH /\ tasks[c].created_at = 1
  /\ \A i \in DOMAIN tasks :
       tasks[i].status # "pending" => i \in Range(dispatched)

\* C7: get_next_task returns, among the pending tasks (of the given assignee
\* when one is passed), one of highest priority and, among those, of earliest
\* creation time, and returns none exactly when there is no such task; after
\* enqueuing A(LOW, t=1), B(HIGH, t=2), C(HIGH, t=1), dequeuing and starting
\* each returned task yields C, then B, then A.
C7_NextTask ==
  /\ tqLast.op = "get_next_task" =>
       LET c == PendingFor(tqLast.who)
           r == tqLast.ret
       IN  /\ r = 0 <=> c = {}
           /\ r # 0 =>
                /\ r \in c
                /\ \A j \in c :
                     \/ tasks[r].priority > tasks[j].priority
                     \/ /\ tasks[r].priority = tasks[j].priority
                        /\ tasks[r].created_at <= tasks[j].created_at
  /\ \A a, b, c \in DOMAIN tasks :
       Scenario(a, b, c) =>
         \A k \in 1..Len(dispatched) : dispatched[k] = <<c, b, a>>[k]

C7_Witness ==
  \E a, b, c \in DOMAIN tasks :
    /\ Scenario(a, b, c)
    /\ dispatched = <<c, b, a>>

\* C8: with two workers each running get_next_task then start_task on the
\* same queue, no task is returned by get_next_task to both of them.
C8_DeliveredOnce ==
  \A w1, w2 \in Workers : w1 # w2 => delivered[w1] \cap delivered[w2] = {}

\* The status changes of PENDING -> IN_PROGRESS -> {COMPLETED | FAILED}, with
\* CANCELLED entered from PENDING or IN_PROGRESS.
Monotone(s, t) ==
  \/ s = t
  \/ s = "pending" /\ t \in {"in_progress", "cancelled"}
  \/ s = "in_progress" /\ t \in {"completed", "failed", "cancelled"}

\* C9: whatever start_task, complete_task, fail_task and
\* execute_with_timeout calls are made, the status of a task changes only
\* along PENDING -> IN_PROGRESS -> {COMPLETED | FAILED}, CANCELLED being
\* entered only from PENDING or IN_PROGRESS.
C9_StatusMonotone ==
  [][\A i \in DOMAIN tasks \cap DOMAIN tasks' :
       Monotone(tasks[i].status, tasks'[i].status)]_vars

\* cleanup_old_tasks(0) was the operation right after complete_task(pid).
CleanupAfterComplete ==
  /\ tqLast.op = "cleanup_old_tasks"
  /\ tqLast.n = 0
  /\ tqLast.pid # 0

\* C10 as stated: cleanup_old_tasks(0) right after complete_task(id), be it
\* within the same second, deletes the task, and get_task_status(id) is
\* none.
C10_PurgeAtOnce ==
  CleanupAfterComplete => get_task_status(DB, tqLast.pid) = "None"

\* C10: cleanup_old_tasks(0) right after complete_task(id) deletes the task
\* exactly when the clock has passed the second of the completion; within
\* that second the task stays, with status completed.
C10_PurgeAfterSecond ==
  CleanupAfterComplete =>
    IF tqLast.at > tqLast.pat
    THEN get_task_status(DB, tqLast.pid) = "None"
    ELSE get_task_status(DB, tqLast.pid) = "completed"

C10_Witness ==
  /\ CleanupAfterComplete
  /\ tqLast.at > tqLast.pat
  /\ get_task_status(DB, tqLast.pid) = "None"
  /\ tqLast.pid <= seq

\* ---------------------------------------------------- recovery properties

\* C11: detect_interruption is true exactly when the run-state recorded last
\* is RUNNING: true after mark_running, false after mark_shutdown, false
\* when no run-state was ever recorded.
C11_DetectsRunning ==
  prLast.op = "detect_interruption"
    => (prLast.ret <=> prLast.mark = "mark_running")

C11_Witness ==
  /\ prLast.op = "detect_interruption"
  /\ prLast.mark = "mark_running"
  /\ prLast.ret
  /\ last_state.status = "running"

\* C12: a run that follows a killed run performs the recovery pass before
\* its main loop, and a run that follows a clean shutdown does not.
C12_RecoversAfterKill ==
  pc = "main_loop"
    => /\ prevExit = "killed" => recovered
       /\ prevExit = "clean" => ~recovered

\* C13: every write of add_task, start_task, complete_task and fail_task that
\* returned before the process was killed is observed by the queue reopened
\* on the same database.
C13_WritesDurable ==
  (pc = "init" /\ prevExit = "killed")
    => /\ DOMAIN tasks = DOMAIN acked.tasks
       /\ \A i \in DOMAIN tasks : tasks[i] = acked.tasks[i]

C13_Witness ==
  /\ pc = "init"
  /\ prevExit = "killed"
  /\ \E i, j \in DOMAIN tasks :
       /\ tasks[i].status = "failed"
       /\ tasks[j].status \in {"in_progress", "completed"}
       /\ acked.tasks[i].status = "failed"

\* ------------------------------------------- breaker properties, continued

\* C14: a call that finds its key OPEN with elapsed < timeout is rejected
\* without invoking the operation and leaves the key's state, its two
\* counters and its opened_at as they were.
C14_RejectLeavesState ==
  (cbLast.outcome # "none" /\ cbLast.pre = "open" /\ cbLast.elapsed < timeout)
    => /\ cbLast.outcome = "open"
       /\ ~cbLast.invoked
       /\ state[cbLast.key] = "open"
       /\ failures[cbLast.key] = cbLast.preFailures
       /\ successes[cbLast.key] = cbLast.preSuccesses
       /\ opened_at[cbLast.key] = cbLast.preOpenedAt

C14_Witness ==
  /\ cbLast.outcome = "open"
  /\ cbLast.pre = "open"
  /\ cbLast.elapsed < timeout
  /\ cbLast.elapsed > 0
  /\ cbLast.preFailures >= 1
  /\ failures[cbLast.key] = cbLast.preFailures
  /\ opened_at[cbLast.key] = cbLast.preOpenedAt

\* C15: a call that finds its key OPEN with elapsed >= timeout, the timeout
\* itself included, passes the gate as HALF_OPEN and invokes the operation.
C15_HalfOpenAtTimeout ==
  (cbLast.outcome # "none" /\ cbLast.pre = "open" /\ cbLast.elapsed >= timeout)
    => /\ cbLast.gate = "half_open"
       /\ cbLast.invoked

\* ------------------------------------------- router properties, continued

\* C16: select_model for "critical" without force_model returns
\* claude-4.5-opus with requires_approval, and neither takes a credential
\* nor touches a circuit breaker.
C16_CriticalNeedsApproval ==
  (rtLast.op = "select_model" /\ rtLast.model = "critical")
    => /\ rtLast.res.exc = "none"
       /\ rtLast.res.model = "claude-4.5-opus"
       /\ rtLast.res.requires_approval
       /\ ~rtLast.poolChanged
       /\ ~rtLast.breakerChanged
       /\ current_key_index = rtLast.preIdx
       /\ rtLog = <<>>

C16_Witness ==
  /\ rtLast.op = "select_model"
  /\ rtLast.model = "critical"
  /\ rtLast.res.requires_approval
  /\ keys # <<>>
  /\ \E k \in ServiceKeys : failures[k] > 0

\* C17: select_model and select_with_fallback never return a model of the
\* CRITICAL tier without requires_approval.
C17_CriticalOnlyWithApproval ==
  (rtLast.op \in {"select_model", "select_with_fallback"}
     /\ rtLast.res.exc = "none"
     /\ rtLast.res.model \in DOMAIN MODELS
     /\ MODELS[rtLast.res.model].tier = "critical")
    => rtLast.res.requires_approval

C17_Witness ==
  /\ rtLast.op \in {"select_model", "select_with_fallback"}
  /\ rtLast.model = "claude-4.5-opus"
  /\ rtLast.res.exc = "none"
  /\ rtLast.res.model = "opencode-claude"
  /\ keys # <<>>

\* C18: acquiring a model that is not FREE while its provider has no
\* credential and its circuit is not OPEN returns the FREE default
\* (opencode-claude, no api key), and the breaker of the provider asked
\* records a success.
C18_NoCredentialDowngrades ==
  (rtLast.op = "get_model_with_key"
     /\ rtLast.model \in DOMAIN MODELS
     /\ MODELS[rtLast.model].tier # "free"
     /\ provider_keys(keys, MODELS[rtLast.model].provider) = <<>>
     /\ rtLast.preGate # "open")
    => /\ rtLast.res = Result("opencode-claude", "opencode", "free", "None",
                              FALSE)
       /\ \E i \in Acquisitions :
            /\ rtLog[i].model = rtLast.model
            /\ rtLog[i].exc = "none"
       /\ rtLast.preGate = "closed"
            => /\ state[ProviderKey(MODELS[rtLast.model].provider)] = "closed"
               /\ failures[ProviderKey(MODELS[rtLast.model].provider)] = 0

C18_Witness ==
  /\ rtLast.op = "get_model_with_key"
  /\ rtLast.model = "chatgpt-5.2-plus"
  /\ rtLast.res.model = "opencode-claude"
  /\ rtLast.res.api_key = "None"
  /\ keys # <<>>
  /\ failures[ProviderKey("openai-plus")] = 0

\* How often model m was attempted in the last operation, and how often the
\* fallback chain names it.
Attempts(m) ==
  Cardinality({i \in Acquisitions : rtLog[i].model = m})
InChain(m) ==
  Cardinality({i \in DOMAIN rtLast.chain : rtLast.chain[i] = m})

\* C19: when an attempt on the preferred model of select_with_fallback is
\* rejected by an open circuit the retry loop ends at once: no sleep follows,
\* and the preferred model is attempted again only as a member of the
\* fallback chain.
C19_OpenCircuitEndsRetries ==
  rtLast.op = "select_with_fallback"
    => \A i \in Acquisitions :
         (rtLog[i].model = rtLast.model /\ rtLog[i].exc = "CircuitOpen")
           => /\ \A j \in DOMAIN rtLog : j > i => rtLog[j].kind # "sleep"
              /\ Cardinality({j \in Acquisitions :
                                j > i /\ rtLog[j].model = rtLast.model})
                   <= InChain(rtLast.model)

C19_Witness ==
  /\ rtLast.op = "select_with_fallback"
  /\ rtLast.chain # <<>>
  /\ \E h, i, j \in DOMAIN rtLog :
       /\ h < i /\ i < j
       /\ rtLog[h].kind = "sleep"
       /\ rtLog[i].kind = "acquire"
       /\ rtLog[i].model = rtLast.model
       /\ rtLog[i].exc = "CircuitOpen"
       /\ rtLog[j].kind = "acquire"
       /\ rtLog[j].model # rtLast.model

\* C20: select_with_fallback attempts the preferred model at most
\* max_retries times, whatever max_retries the caller passed, 0 and 1
\* included, before it goes through the fallback chain.
C20_AtMostMaxRetries ==
  (rtLast.op = "select_with_fallback" /\ rtLast.retries # NoArg)
    => Attempts(rtLast.model) <= rtLast.retries + InChain(rtLast.model)

\* The attempts of the last operation made by its own loops: an acquisition
\* logged right after a selection that found no credential is the nested
\* one of the downgrade at line 271.
Nested(i) ==
  /\ i > 1
  /\ rtLog[i - 1].kind = "select"
  /\ rtLog[i - 1].cred = 0
TopAttempts == {i \in Acquisitions : ~Nested(i)}
Fallbacks == {i \in DOMAIN rtLog : rtLog[i].kind = "fallback"}
\* The attempt that follows the "Trying fallback" line at position i.
AttemptOf(i) ==
  CHOOSE j \in TopAttempts :
    j > i /\ \A k \in TopAttempts : k > i => j <= k

\* C21: after the retries select_with_fallback tries the chain in list
\* order, each entry once, stops at the first entry acquired and returns its
\* result; the hardcoded default is returned only when every entry failed.
C21_ChainInOrder ==
  rtLast.op = "select_with_fallback"
    => /\ Cardinality(Fallbacks) <= Len(rtLast.chain)
       /\ \A i \in Fallbacks :
            LET n == Cardinality({h \in Fallbacks : h <= i})
            IN  /\ rtLog[i].model = rtLast.chain[n]
                /\ \A h \in DOMAIN rtLog : h > i => rtLog[h].kind # "sleep"
                /\ \E j \in TopAttempts : j > i
                /\ \A j \in TopAttempts : j < i => rtLog[j].exc # "none"
                /\ rtLog[AttemptOf(i)].model = rtLast.chain[n]
                /\ Cardinality({j \in TopAttempts : j > i})
                     = Cardinality({h \in Fallbacks : h > i}) + 1
                /\ IF rtLog[AttemptOf(i)].exc = "none"
                   THEN /\ AttemptOf(i) = Len(rtLog)
                        /\ rtLast.res.exc = "none"
                        /\ rtLast.res.model \in {rtLast.chain[n], "opencode-claude"}
                   ELSE n < Len(rtLast.chain) => \E h \in Fallbacks : h > i
       /\ (\A j \in TopAttempts : rtLog[j].exc # "none")
            => /\ Cardinality(Fallbacks) = Len(rtLast.chain)
               /\ rtLast.res = DefaultResult

C21_Witness ==
  /\ rtLast.op = "select_with_fallback"
  /\ Cardinality(Fallbacks) = 2
  /\ \E i, j \in Fallbacks :
       /\ i < j
       /\ rtLog[AttemptOf(i)].exc # "none"
       /\ rtLog[AttemptOf(j)].exc = "none"
  /\ rtLog[Len(rtLog)].exc = "none"
  /\ rtLast.res.model = "opencode-claude"

\* The tier C22 states for a complexity and a budget.
StatedTier(complexity, budget) ==
  IF budget < 20 THEN "free"
  ELSE CASE complexity = "complex" -> "premium"
         [] complexity = "simple" -> "free"
         [] OTHER -> "standard"

\* C22: select_model without force_model and with a complexity other than
\* "critical" hands exactly one candidate to acquisition, a model of the
\* target tier; with a budget below 20 it returns a FREE model without a
\* credential.
C22_CandidateOfTargetTier ==
  (rtLast.op = "select_model" /\ rtLast.model \in Complexities \ {"critical"})
    => /\ Cardinality(TopAttempts) = 1
       /\ \A i \in TopAttempts :
            /\ rtLog[i].model \in DOMAIN MODELS
            /\ MODELS[rtLog[i].model].tier
                 = StatedTier(rtLast.model, rtLast.retries)
       /\ rtLast.retries < 20
            => /\ rtLast.res.exc = "none"
               /\ rtLast.res.tier = "free"
               /\ MODELS[rtLast.res.model].tier = "free"
               /\ rtLast.res.api_key = "None"
               /\ current_key_index = rtLast.preIdx
               /\ ~rtLast.poolChanged

C22_Witness ==
  /\ rtLast.op = "select_model"
  /\ rtLast.model = "complex"
  /\ rtLast.retries = 10
  /\ keys # <<>>
  /\ rtLast.res.tier = "free"
  /\ rtLast.res.model = "gemini-flash-lite"

\* ------------------------------------------- queue properties, continued

\* The step is a call of one of ops (a call that changes nothing at all is a
\* stuttering step).
QueueCall(ops) == tqLast'.op \in ops /\ tqLast' # tqLast

\* C23: cleanup_old_tasks returns the number of tasks that call removed.
C23_ReturnsRemoved ==
  [][QueueCall({"cleanup_old_tasks"})
       => tqLast'.ret = Cardinality(DOMAIN tasks \ DOMAIN tasks')]_vars

\* The tasks C24 states a cleanup removes: COMPLETED or FAILED, the status
\* written (updated_at) before the cutoff.
StatedPurge(days) ==
  {i \in DOMAIN tasks :
     /\ tasks[i].status \in {"completed", "failed"}
     /\ tasks[i].updated_at < now - days * DaySeconds}

\* C24: cleanup_old_tasks(days) removes exactly the tasks that are COMPLETED
\* or FAILED since before the cutoff, the FAILED ones included, and no other
\* task.
C24_PurgesTerminal ==
  [][QueueCall({"cleanup_old_tasks"})
       => DOMAIN tasks \ DOMAIN tasks' = StatedPurge(tqLast'.n)]_vars

\* C25: when the deadline of execute_with_timeout expires the task is FAILED
\* with the timeout message, TimeoutError is raised to the caller, and the
\* operation was run once.
C25_TimeoutFails ==
  (tqLast.op = "execute_with_timeout" /\ tqLast.who = "deadline")
    => /\ tqLast.exc = "TimeoutError"
       /\ tqLast.ret = 1
       /\ tqLast.hit
            => /\ tasks[tqLast.id].status = "failed"
               /\ tasks[tqLast.id].error = TimedOut(tqLast.n)
               /\ tasks[tqLast.id].updated_at = tqLast.at

C25_Witness ==
  /\ tqLast.op = "execute_with_timeout"
  /\ tqLast.who = "deadline"
  /\ tqLast.hit
  /\ tqLast.exc = "TimeoutError"
  /\ tasks[tqLast.id].status = "failed"
  /\ tasks[tqLast.id].started_at # NoTime
  /\ tasks[tqLast.id].error = "Execution timed out (1s)"

\* C26: add_task returns an id above every id returned before, also after
\* the task with the highest id was deleted; the new task is PENDING; the
\* status operations leave the set of ids as it is.
C26_IdsIncrease ==
  [][/\ QueueCall({"add_task"})
          => /\ tqLast'.ret > issued
             /\ tqLast'.ret \notin DOMAIN tasks
             /\ tqLast'.ret \in DOMAIN tasks'
             /\ tasks'[tqLast'.ret].status = "pending"
             /\ \A i \in DOMAIN tasks : tasks'[i] = tasks[i]
     /\ QueueCall({"start_task", "complete_task", "fail_task",
                   "execute_with_timeout"})
          => DOMAIN tasks' = DOMAIN tasks]_vars

C26_Witness ==
  /\ tqLast.op = "add_task"
  /\ tqLast.ret = 2
  /\ DOMAIN tasks = {2}
  /\ tasks[2].status = "pending"
  /\ issued = 2

\* ---------------------------------------- recovery properties, continued

OperationFailed ==
  /\ cbLast.outcome # "none"
  /\ cbLast.invoked
  /\ failRun[cbLast.key] > 0

\* C29: when the operation raised, the failure counter is one higher, at
\* failure_threshold the key is OPEN with opened_at stamped and the success
\* counter at 0, and the caller gets the operation's exception, not a return
\* value and not CircuitBreakerOpenError.
C29_FailureReraised ==
  OperationFailed
    => /\ cbLast.outcome = "fail"
       /\ failures[cbLast.key] = cbLast.preFailures + 1
       /\ IF failures[cbLast.key] >= failure_threshold
          THEN /\ state[cbLast.key] = "open"
               /\ opened_at[cbLast.key] = cbLast.done
               /\ successes[cbLast.key] = 0
          ELSE /\ state[cbLast.key] = cbLast.gate
               /\ opened_at[cbLast.key] = cbLast.preOpenedAt
               /\ successes[cbLast.key] = cbLast.preSuccesses

C29_Witness ==
  /\ OperationFailed
  /\ cbLast.outcome = "fail"
  /\ cbLast.pre = "closed"
  /\ failure_threshold = 2
  /\ cbLast.preFailures = 1
  /\ state[cbLast.key] = "open"
  /\ opened_at[cbLast.key] = cbLast.done
  /\ cbLast.done > cbLast.at

\* ------------------------------------------------- router properties, C30

SleepEvents == {i \in DOMAIN rtLog : rtLog[i].kind = "sleep"}
\* The attempts of the operation's own loops made before position i.
AttemptsBefore(i) == Cardinality({j \in TopAttempts : j < i})

\* C30: the sleep after the k-th failed attempt on the preferred model has
\* the base delay min(2^(k-1), 30); a sleep stands between two attempts on
\* the preferred model, so there are at most max_retries - 1 of them
\* (max_retries as the loop uses it, line 191); none is in the fallback stage.
C30_BackoffDoubles ==
  rtLast.op = "select_with_fallback"
    => /\ \A i \in SleepEvents :
            /\ rtLog[i].secs = Min(2 ^ (AttemptsBefore(i) - 1), MAX_BACKOFF)
            /\ i - 1 \in TopAttempts
            /\ rtLog[i - 1].model = rtLast.model
            /\ rtLog[i - 1].exc \notin {"none", "CircuitOpen"}
            /\ i + 1 \in Acquisitions \/ i + 2 \in Acquisitions
            /\ \E j \in TopAttempts : j > i /\ rtLog[j].model = rtLast.model
            /\ \A h \in Fallbacks : h > i
       /\ Cardinality(SleepEvents) <= EffectiveRetries(rtLast.retries) - 1

C30_Witness ==
  /\ rtLast.op = "select_with_fallback"
  /\ Cardinality(SleepEvents) = 6
  /\ \E i, j \in SleepEvents :
       /\ rtLog[i].secs = 16
       /\ rtLog[j].secs = MAX_BACKOFF
       /\ i < j
  /\ Fallbacks # {}

\* ------------------------------------------------- router properties, C31

\* C31: acquiring a FREE model returns it with no api key and neither
\* selects a credential nor moves the round-robin index nor changes a
\* credential, whatever credentials the pool holds for its provider.
C31_FreeSkipsPool ==
  (rtLast.op = "get_model_with_key"
     /\ rtLast.model \in DOMAIN MODELS
     /\ MODELS[rtLast.model].tier = "free")
    => /\ rtLast.res.exc = "none"
       /\ rtLast.res.model = rtLast.model
       /\ rtLast.res.api_key = "None"
       /\ ~rtLast.poolChanged
       /\ current_key_index = rtLast.preIdx
       /\ \A i \in DOMAIN rtLog : rtLog[i].kind # "select"

C31_Witness ==
  /\ rtLast.op = "get_model_with_key"
  /\ rtLast.model = "gemini-flash-lite"
  /\ rtLast.res.api_key = "None"
  /\ \E i \in DOMAIN keys :
       keys[i].provider = "google" /\ keys[i].usage_count = 0
  /\ current_key_index > 0

\* ------------------------------------------------- router properties, C32

\* The step is a call of router operation op.
RouterCall(op) == rtLast'.op = op /\ now' = now /\ vars' # vars

\* C32: mark_rate_limited(model, key) stamps rate_limited_until = now on
\* every credential whose secret is key and on no other, moves the
\* round-robin index by one, and leaves the credentials otherwise and the
\* breaker as they were.
C32_MarkRateLimited ==
  [][RouterCall("mark_rate_limited")
       => /\ current_key_index' = current_key_index + 1
          /\ Len(keys') = Len(keys)
          /\ \A i \in DOMAIN keys :
               keys'[i] = IF keys[i].key = rtLast'.model
                          THEN [keys[i] EXCEPT !.rate_limited_until = now]
                          ELSE keys[i]
          /\ UNCHANGED <<failures, successes, state, opened_at>>]_vars

C32_Witness ==
  /\ rtLast.op = "mark_rate_limited"
  /\ \E i, j \in DOMAIN keys :
       /\ i # j
       /\ keys[i].key = rtLast.model
       /\ keys[j].key = rtLast.model
       /\ keys[i].rate_limited_until = now
       /\ keys[j].rate_limited_until = now
       /\ keys[i].usage_count > 0
  /\ now > 0

\* C33: get_next_task changes no task (every column of every row, the id
\* sequence, the change counter and the committed file are the same before
\* and after), and a get_next_task that directly follows a get_next_task
\* with the same filter returns the same task.
C33_DequeueReadOnly ==
  [][QueueCall({"get_next_task"})
       => /\ tasks' = tasks
          /\ seq' = seq
          /\ total_changes' = total_changes
          /\ committed' = committed
          /\ (tqLast.op = "get_next_task" /\ tqLast.who = tqLast'.who)
               => tqLast'.ret = tqLast.ret]_vars

C33_Witness ==
  /\ tqLast.op = "get_next_task"
  /\ tqLast.who = "agent-1"
  /\ tqLast.ret \in DOMAIN tasks
  /\ tasks[tqLast.ret].status = "pending"
  /\ \E i \in DOMAIN tasks : tasks[i].status = "in_progress"
  /\ now > 1

\* No thread is inside a call.
Quiescent == \A t \in Threads : tpc[t] = "idle"

\* C34: also when calls on one service name interleave, a service whose
\* circuit is OPEN or HALF_OPEN has a failure counter of at least
\* failure_threshold (so one failure in HALF_OPEN reopens the circuit).
C34_OpenMeansTripped ==
  \A k \in ServiceKeys :
    state[k] \in {"open", "half_open"} => failures[k] >= failure_threshold

\* C35: when the calls that failed on a service since its last success (or
\* since the start) have all finished, none of them is missing from the
\* failure counter: it is at least their number, exactly their number while
\* the circuit has never opened, and with failure_threshold or more of them
\* the circuit is OPEN.
C35_NoLostFailure ==
  \A k \in ServiceKeys :
    Quiescent
      => /\ failures[k] >= failRun[k]
         /\ opened_at[k] = NoTime => failures[k] = failRun[k]
         /\ failRun[k] >= failure_threshold => state[k] = "open"

RECURSIVE SumDone(_)
SumDone(S) ==
  IF S = {} THEN 0
  ELSE LET t == CHOOSE x \in S : TRUE IN tloc[t].done + SumDone(S \ {t})

RECURSIVE SumUsage(_)
SumUsage(n) == IF n = 0 THEN 0 ELSE keys[n].usage_count + SumUsage(n - 1)

\* C36: when the acquisitions that found a credential have all finished, in
\* whatever interleaving, the index has advanced by their number and so has
\* the sum of usage_count over the pool; and two threads that each made one
\* acquisition for a provider with two credentials got different ones.
C36_NoLostUpdate ==
  Quiescent
    => /\ current_key_index = SumDone(Threads)
       /\ SumUsage(Len(keys)) = SumDone(Threads)
       /\ \A t, u \in Threads :
            (/\ t # u
             /\ tloc[t].done = 1
             /\ tloc[u].done = 1
             /\ tloc[t].arg = tloc[u].arg
             /\ tloc[t].len = 2
             /\ tloc[u].len = 2)
              => tloc[t].ret # tloc[u].ret

\* C37: for a provider with two credentials, an acquisition returns the
\* credential other than the one the provider's previous acquisition
\* returned, whatever the router did in between.
C37_CyclicOrder ==
  [][(/\ RouterCall("select_key_for_provider")
      /\ Len(provider_keys(keys, rtLast'.model)) = 2
      /\ handed[rtLast'.model] # 0)
       => handed'[rtLast'.model] # handed[rtLast'.model]]_vars

\* C38: a select_with_fallback for a model name that is not in the registry,
\* without a fallback chain, makes as many acquisitions as it has attempts,
\* each of them raises ValueError, and none of them changes the breaker, the
\* round-robin index or the pool (no credential is selected).
C38_UnknownModel ==
  (/\ rtLast.op = "select_with_fallback"
   /\ rtLast.model \notin DOMAIN MODELS
   /\ rtLast.chain = <<>>)
    => /\ Cardinality(Acquisitions) = EffectiveRetries(rtLast.retries)
       /\ \A i \in Acquisitions : rtLog[i].exc = "ValueError"
       /\ \A i \in DOMAIN rtLog : rtLog[i].kind # "select"
       /\ ~rtLast.breakerChanged
       /\ ~rtLast.poolChanged
       /\ current_key_index = rtLast.preIdx
       /\ rtLast.res = DefaultResult

C38_Witness ==
  /\ rtLast.op = "select_with_fallback"
  /\ rtLast.model = "no-such-model"
  /\ rtLast.chain = <<>>
  /\ rtLast.retries = MaxLongRetries
  /\ Cardinality(Acquisitions) = MaxLongRetries
  /\ Len(keys) = 2
  /\ current_key_index > 0
  /\ failures[ProviderKey("google-ai-pro")] > 0

\* C39: the breaker of provider opencode, which serves FREE models only, is
\* CLOSED with failure counter 0 in every state; every acquisition from that
\* provider returns; and a selection that finds no credential is followed at
\* once by the nested acquisition of opencode-claude, which returns and is
\* itself followed by the end of the acquisition that made it (the downgrade
\* is one level deep).
C39_FreeDowngradeEnds ==
  /\ state[ProviderKey("opencode")] = "closed"
  /\ failures[ProviderKey("opencode")] = 0
  /\ \A i \in Acquisitions : rtLog[i].prov = "opencode" => rtLog[i].exc = "none"
  /\ \A i \in DOMAIN rtLog :
       (rtLog[i].kind = "select" /\ rtLog[i].cred = 0)
         => /\ i + 2 <= Len(rtLog)
            /\ rtLog[i + 1].kind = "acquire"
            /\ rtLog[i + 1].model = "opencode-claude"
            /\ rtLog[i + 1].exc = "none"
            /\ rtLog[i + 2].kind = "acquire"
            /\ rtLog[i + 2].prov = rtLog[i].prov
            /\ rtLog[i + 2].exc = "none"

C39_Witness ==
  /\ rtLast.op = "select_with_fallback"
  /\ rtLast.model = "chatgpt-5.2-plus"
  /\ rtLast.res.model = "opencode-claude"
  /\ \E i \in Acquisitions : Nested(i) /\ rtLog[i].model = "opencode-claude"
  /\ state[ProviderKey("google-ai-pro")] = "open"
  /\ successes[ProviderKey("openai-plus")] = 0
  /\ now > RouterTimeout

\* The record save_checkpoint stores for the arguments last given for a.
StoredImage(a) ==
  [step |-> saved[a].step, status |-> saved[a].status,
   data |-> json_image(or_empty(saved[a].data))]

\* C40: whenever the process is killed inside save_checkpoint, mark_running
\* or mark_shutdown, the files stay readable: every checkpoint file and
\* last_state.json parse, no load_checkpoint, detect_interruption or recover
\* raises, and after a kill inside save_checkpoint(a, ...) the file of a is
\* the checkpoint it held before or the new one.
C40_CrashSafe ==
  /\ \A a \in Agents : ~Unreadable(checkpoints[a])
  /\ ~Unreadable(last_state)
  /\ prLast.exc = "none"
  /\ prLast.op = "killed_in_save"
       => checkpoints[prLast.agent] \in {prLast.cp, StoredImage(prLast.agent)}

====
